---------------------------- MODULE Spec2Model ----------------------------
(***************************************************************************)
(* Akai MPD218 controller script for Mixxx: NRPN decode and motion         *)
(* dispatch, the LED feedback renderer with its expiry timers, the pad     *)
(* input router, and the legacy NRPN handlers kept in the repository.      *)
(*                                                                         *)
(* JavaScript numbers are modelled as exact rationals <<n, d>> (d > 0, in  *)
(* lowest terms).  null is 0 for timer handles and decks, -1 for a step    *)
(* level, NullQ for a rational; undefined is -1 for the NRPN bytes.        *)
(* A timer's delay is abstracted: a pending timer may fire at any time,    *)
(* except the timers of one animation batch, which fire in delay order.    *)
(***************************************************************************)
EXTENDS Integers, Sequences, FiniteSets, TLC

(***************************************************************************)
(* Numbers                                                                 *)
(***************************************************************************)
Abs(x) == IF x < 0 THEN -x ELSE x

RECURSIVE GCD(_, _)
GCD(a, b) == IF b = 0 THEN a ELSE GCD(b, a % b)

Q(n, d) == LET g == GCD(Abs(n), d) IN <<n \div g, d \div g>>

QInt(n) == <<n, 1>>

NullQ == <<0, 0>>

QAdd(x, y) == Q(x[1] * y[2] + y[1] * x[2], x[2] * y[2])

QNeg(x) == <<-x[1], x[2]>>

QSub(x, y) == QAdd(x, QNeg(y))

QMul(x, y) == Q(x[1] * y[1], x[2] * y[2])

QDiv(x, y) == IF y[1] > 0 THEN Q(x[1] * y[2], x[2] * y[1])
                          ELSE Q(-(x[1] * y[2]), x[2] * (-y[1]))

QLt(x, y) == x[1] * y[2] < y[1] * x[2]

QLe(x, y) == x[1] * y[2] <= y[1] * x[2]

QGt(x, y) == QLt(y, x)

QGe(x, y) == QLe(y, x)

QMax(x, y) == IF QLt(x, y) THEN y ELSE x

QMin(x, y) == IF QLt(y, x) THEN y ELSE x

QAbs(x) == <<Abs(x[1]), x[2]>>

\* Math.floor
QFloor(x) == x[1] \div x[2]

\* Math.round: the nearest integer, halves rounded up
QRound(x) == QFloor(QAdd(x, <<1, 2>>))

IMax(a, b) == IF a < b THEN b ELSE a

IMin(a, b) == IF a < b THEN a ELSE b

\* the elements of a set of integers in ascending order
SortedSeq(S) ==
    [i \in 1..Cardinality(S) |-> CHOOSE x \in S : Cardinality({y \in S : y < x}) = i - 1]

RECURSIVE Flatten(_)
Flatten(ss) == IF ss = <<>> THEN <<>> ELSE Head(ss) \o Flatten(Tail(ss))

Range(s) == {s[i] : i \in 1..Len(s)}

(***************************************************************************)
(* MIDI constants                                                          *)
(***************************************************************************)
NOTE_ON == 144
NOTE_OFF == 128
CC == 176
PAD_CHANNEL == 9
NRPN_MSB == 99
NRPN_LSB == 98
NRPN_INCREMENT == 96
NRPN_DECREMENT == 97
LED_ON == 127
LED_OFF == 0

(***************************************************************************)
(* Hardware constants                                                      *)
(***************************************************************************)
TOP_ROW == <<48, 49, 50, 51>>
SECOND_ROW == <<44, 45, 46, 47>>
THIRD_ROW == <<40, 41, 42, 43>>
BOTTOM_ROW == <<36, 37, 38, 39>>

MAX_HOTCUES == 16
MAX_ENCODER_SPEED == 1000

SHUTDOWN_ANIMATION_INTERVAL == 60
RECONFIGURE_DELAY == 100

\* runStartupAnimation: the pause before the animation starts
startPause == 100

MAX_ZOOM == <<100, 1>>
MIN_ZOOM == <<1, 1>>
DECK_COUNT == 4
MAX_BANKS == 3
MIDI_CHANNELS == 16

Decks == 1..DECK_COUNT

(***************************************************************************)
(* Configuration (MPD218.Config as shipped)                                *)
(***************************************************************************)
rotation == 90
rotationDirection == "counterclockwise"
indexOrder == "ascending"
deckOrder == <<3, 1, 2, 4>>
featureRows == <<"bpmlock", "slip_enabled", "keylock", "quantize">>

\* MPD218.Config.layout
LayoutAsShipped ==
    [rotation |-> rotation, rotationDirection |-> rotationDirection,
     indexOrder |-> indexOrder, deckOrder |-> deckOrder, featureRows |-> featureRows]

\* MPD218.Config.encoders and MPD218.Config.zoomFeedback, which the script changes at run time
ConfigAsShipped ==
    [zoomFast |-> <<1, 1>>, zoomSlow |-> <<1, 10>>, beatgridSpeed |-> <<1, 1>>,
     jogwheelSpeed |-> <<1200, 1>>, scrubSpeed |-> <<1, 1000>>,
     enabled |-> TRUE, duration |-> 4000, reverseDirection |-> TRUE]

(***************************************************************************)
(* Pad layout generator                                                    *)
(***************************************************************************)
PHYSICAL_GRID == <<TOP_ROW, SECOND_ROW, THIRD_ROW, BOTTOM_ROW>>

RotateCW(g) ==
    LET rows == Len(g)
        cols == Len(g[1])
    IN [c \in 1..cols |-> [k \in 1..rows |-> g[rows - k + 1][c]]]

RotateCCW(g) ==
    LET rows == Len(g)
        cols == Len(g[1])
    IN [c \in 1..cols |-> [k \in 1..rows |-> g[k][cols - c + 1]]]

RECURSIVE RotateTimes(_, _, _)
RotateTimes(g, n, clockwise) ==
    IF n = 0 THEN g
    ELSE RotateTimes(IF clockwise THEN RotateCW(g) ELSE RotateCCW(g), n - 1, clockwise)

rotateGrid(grid, degrees, direction) ==
    RotateTimes(grid, (degrees \div 90) % 4, direction = "clockwise")

\* the decks taken from the rows of the grid instead of its columns
extractChannelsFromRows(grid, order, decks) ==
    LET numRows == Len(grid)
        rowOf(deck) == CHOOSE r \in 1..numRows :
                          decks[IF order = "ascending" THEN r ELSE numRows + 1 - r] = deck
    IN [deck \in Range(decks) |-> grid[rowOf(deck)]]

\* CHANNELS: deck number -> the column of pads of that deck
extractChannels(grid, order, decks) ==
    LET numCols == Len(grid[1])
        colOf(deck) == CHOOSE c \in 1..numCols :
                          decks[IF order = "ascending" THEN c ELSE numCols + 1 - c] = deck
    IN [deck \in Range(decks) |-> [k \in 1..Len(grid) |-> grid[k][colOf(deck)]]]

\* FEATURES: feature type -> the row of pads of that feature (nearest row last in the grid)
extractFeatureRows(grid, featureConfig) ==
    [f \in Range(featureConfig) |->
        grid[Len(grid) + 1 - (CHOOSE i \in 1..Len(featureConfig) : featureConfig[i] = f)]]

\* LayoutGenerator.generateLayout() under the layout configuration cfg
generateLayout(cfg) ==
    LET rotatedGrid == rotateGrid(PHYSICAL_GRID, cfg.rotation, cfg.rotationDirection)
    IN [NOTES |-> Flatten(rotatedGrid),
        CHANNELS |-> extractChannels(rotatedGrid, cfg.indexOrder, cfg.deckOrder),
        FEATURES |-> extractFeatureRows(rotatedGrid, cfg.featureRows),
        GRID |-> rotatedGrid]

PadLayout == generateLayout(LayoutAsShipped)

GRID == rotateGrid(PHYSICAL_GRID, rotation, rotationDirection)

NOTES == Flatten(GRID)

CHANNELS == extractChannels(GRID, indexOrder, deckOrder)

FEATURES == extractFeatureRows(GRID, featureRows)

Pads == Range(NOTES)

(***************************************************************************)
(* Bank mappings: pad note -> [type, deck, number]                         *)
(***************************************************************************)
generateFeatureBank(layout) ==
    [note \in UNION {Range(layout.FEATURES[f]) : f \in DOMAIN layout.FEATURES} |->
        LET f == CHOOSE t \in DOMAIN layout.FEATURES : note \in Range(layout.FEATURES[t])
            idx == CHOOSE i \in 1..Len(layout.FEATURES[f]) : layout.FEATURES[f][i] = note
            owners == {d \in DOMAIN layout.CHANNELS : note \in Range(layout.CHANNELS[d])}
        IN [type |-> f,
            deck |-> IF owners = {} THEN idx
                     ELSE CHOOSE d \in owners : \A e \in owners : e <= d,
            number |-> 0]]

generateHotcueBank(layout, channelNum) ==
    [note \in Range(layout.NOTES) |->
        [type |-> "hotcue",
         deck |-> channelNum,
         number |-> CHOOSE i \in 1..Len(layout.NOTES) : layout.NOTES[i] = note]]

generateAllBanks(layout) ==
    <<generateFeatureBank(layout), generateHotcueBank(layout, 1),
      generateHotcueBank(layout, 2)>>

BankMappings == generateAllBanks(PadLayout)

(***************************************************************************)
(* Encoder mappings: MIDI channel (1-based) -> [type, deck, speed]         *)
(***************************************************************************)
gridToDeckIndex == <<1, 4, 2, 3>>

rotatedGridToDeckIndex ==
    LET g == gridToDeckIndex IN
    IF rotation = 90 /\ rotationDirection = "counterclockwise"
        THEN <<g[3], g[1], g[4], g[2]>>
    ELSE IF rotation = 0 THEN g
    ELSE IF rotation = 180 THEN <<g[4], g[3], g[2], g[1]>>
    ELSE IF rotation = 270 \/ (rotation = 90 /\ rotationDirection = "clockwise")
        THEN <<g[2], g[4], g[1], g[3]>>
    ELSE g

encoderToDeck == [i \in 1..4 |-> deckOrder[rotatedGridToDeckIndex[i]]]

\* a mapping table that leaves no gap: channels 11 and 12 get beatgrid entries as well
generateEncoderMappingsNoGap(cfg) ==
    [ch \in 1..16 |->
        IF ch = 1 THEN [type |-> "zoom", deck |-> 1, speed |-> cfg.zoomFast]
        ELSE IF ch = 2 THEN [type |-> "zoom", deck |-> 1, speed |-> cfg.zoomSlow]
        ELSE IF ch \in 3..6
            THEN [type |-> "superknob", deck |-> encoderToDeck[ch - 2], speed |-> <<4, 1>>]
        ELSE IF ch \in 7..10
            THEN [type |-> "beatjump", deck |-> encoderToDeck[ch - 6], speed |-> <<1, 1>>]
        ELSE [type |-> "beatgrid", deck |-> encoderToDeck[((ch - 1) % 4) + 1],
              speed |-> cfg.beatgridSpeed]]

generateEncoderMappings(cfg) ==
    [ch \in {1, 2} \cup (3..10) \cup (13..16) |->
        IF ch = 1 THEN [type |-> "zoom", deck |-> 1, speed |-> cfg.zoomFast]
        ELSE IF ch = 2 THEN [type |-> "zoom", deck |-> 1, speed |-> cfg.zoomSlow]
        ELSE IF ch \in 3..6
            THEN [type |-> "superknob", deck |-> encoderToDeck[ch - 2], speed |-> <<4, 1>>]
        ELSE IF ch \in 7..10
            THEN [type |-> "beatjump", deck |-> encoderToDeck[ch - 6], speed |-> <<1, 1>>]
        ELSE [type |-> "beatgrid", deck |-> encoderToDeck[ch - 12],
              speed |-> cfg.beatgridSpeed]]


(***************************************************************************)
(* State                                                                   *)
(***************************************************************************)
VARIABLES
    initialized,        \* MPD218.State.initialized
    registered,         \* the MIDI input handlers and engine connections are registered
    currentBank,        \* MPD218.State.currentBank
    stTimers,           \* MPD218.State.timers
    nrpnParams,         \* MPD218.State.nrpnParams
    zoomFeedback,       \* MPD218.State.zoomFeedback
    superknobFeedback,  \* MPD218.State.superknobFeedback
    beatjumpRate,       \* MPD218.State.beatjumpRate
    timers,             \* the timers pending in the engine's timer service
    eng,                \* the host's control values
    now,                \* Date.now()
    padLED,             \* the LED of each pad on the device
    fx,                 \* what the last handler did: calls made to the host and the device
    config,             \* MPD218.Config.encoders and MPD218.Config.zoomFeedback
    EncoderMappings,    \* MPD218.EncoderMappings
    nrpnState,          \* legacy script: MPD218.nrpnState.channels
    legacyEng           \* the host's control values as seen by the legacy script

vars == <<initialized, registered, currentBank, stTimers, nrpnParams, zoomFeedback,
          superknobFeedback, beatjumpRate, timers, eng, now, padLED, fx, config,
          EncoderMappings, nrpnState, legacyEng>>

scriptVars == <<initialized, registered, currentBank, stTimers, nrpnParams, zoomFeedback,
                superknobFeedback, beatjumpRate, timers, eng, now, padLED, config,
                EncoderMappings>>

legacyVars == <<nrpnState, legacyEng>>

FeatureTypes == {"bpmlock", "keylock", "slip_enabled", "quantize"}

\* fx: the handler that ran last (op, ch, val), the action handler it dispatched to, the
\* host controls it wrote, the MIDI messages it sent, the timers it began and stopped, the
\* show() call it made (with the session as it was before) and the session it ended;
\* ticks: the run of beat-jump ticks handled since the last handler of another kind;
\* before: the value the zoom or superknob handler read from the host before it wrote
NoFx == [op |-> "none", ch |-> 0, val |-> 0, dispatch |-> "none",
         writes |-> <<>>, midi |-> <<>>, began |-> <<>>, stopped |-> <<>>,
         show |-> <<>>, ended |-> <<>>, ticks |-> <<>>, before |-> <<>>]

\* one beat-jump tick: whether it was the deck's first, the time since the deck's previous
\* tick as the handler computed it, the multiplier before the rate adjustment and after it
Tick(deck, first, dt, before, multiplier) ==
    [deck |-> deck, first |-> first, dt |-> dt, before |-> before,
     multiplier |-> multiplier]

ShowCall(kind, deck, value, before) ==
    [kind |-> kind, deck |-> deck, value |-> value, before |-> before]

Fx(op, ch, val) == [NoFx EXCEPT !.op = op, !.ch = ch, !.val = val]

InactiveZoom == [active |-> FALSE, deck |-> 0, timer |-> 0, lastLevel |-> -1,
                 currentPadStates |-> {}]

InactiveSuperknob == [active |-> FALSE, deck |-> 0, timer |-> 0, lastValue |-> NullQ,
                      currentPadStates |-> {}]

NoNrpn == [present |-> FALSE, msb |-> -1, lsb |-> -1, param |-> -1]

\* the host as the script finds it when it is loaded
HostAtLoad ==
    [zoom |-> [d \in Decks |-> <<3, 1>>],
     super1 |-> [d \in Decks |-> <<1, 2>>],
     feat |-> [d \in Decks |-> [f \in FeatureTypes |-> 0]],
     hotcue |-> [d \in Decks |-> [n \in 1..MAX_HOTCUES |-> 0]],
     pos |-> [d \in Decks |-> <<1, 2>>],
     dur |-> [d \in Decks |-> <<2, 1>>],
     bpm |-> [d \in Decks |-> <<120, 1>>]]

\* the script as evaluated, before Mixxx calls init()
Init ==
    /\ initialized = FALSE
    /\ registered = FALSE
    /\ currentBank = 1
    /\ stTimers = <<>>
    /\ nrpnParams = [c \in 1..MIDI_CHANNELS |-> NoNrpn]
    /\ zoomFeedback = InactiveZoom
    /\ superknobFeedback = InactiveSuperknob
    /\ beatjumpRate = [lastTime |-> [d \in Decks |-> 0], multiplier |-> [d \in Decks |-> 0]]
    /\ timers = {}
    /\ eng = HostAtLoad
    /\ now = 1000
    /\ padLED = [p \in Pads |-> FALSE]
    /\ fx = NoFx
    /\ config = ConfigAsShipped
    /\ EncoderMappings = generateEncoderMappings(ConfigAsShipped)
    /\ nrpnState = [c \in {1, 2, 3, 4, 5, 6, 9, 11, 12, 13} |->
                       [currentParameter |-> -1, msb |-> 0, lsb |-> 0]]
    /\ legacyEng = [zoom |-> [d \in Decks |-> <<3, 1>>], pos |-> [d \in Decks |-> <<1, 2>>]]

(***************************************************************************)
(* Timer service                                                           *)
(***************************************************************************)
Timer(id, kind, a, b) == [id |-> id, kind |-> kind, a |-> a, b |-> b]

UsedIds == {t.id : t \in timers} \cup Range(stTimers)
              \cup {zoomFeedback.timer, superknobFeedback.timer}

\* the handle engine.beginTimer returns: one that no pending timer and no stored handle uses
FreshId(used) == CHOOSE i \in 1..(Cardinality(used) + 1) :
                    i \notin used /\ \A j \in 1..(i - 1) : j \in used

\* engine.stopTimer: removes the timer if it is pending, otherwise does nothing
stopTimer(ts, id) == {t \in ts : t.id # id}

(***************************************************************************)
(* LED manager                                                             *)
(***************************************************************************)
\* an LED manager that clears a pad with a Note On of velocity 0
setPadLEDRunningStatus(note, state) ==
    IF state
        THEN << <<NOTE_ON + PAD_CHANNEL, note, LED_ON>>, <<CC + PAD_CHANNEL, note, LED_ON>> >>
        ELSE << <<NOTE_ON + PAD_CHANNEL, note, LED_OFF>> >>

\* LEDManager.setPadLED: the Note message and, for a lit pad, the CC message sent after it
setPadLED(note, state) ==
    IF state
        THEN << <<NOTE_ON + PAD_CHANNEL, note, LED_ON>>, <<CC + PAD_CHANNEL, note, LED_ON>> >>
        ELSE << <<NOTE_OFF + PAD_CHANNEL, note, LED_OFF>> >>

\* setPadLED for each note of a sequence, in order
setPadLEDs(notes, state) ==
    LET k == IF state THEN 2 ELSE 1
    IN [i \in 1..(k * Len(notes)) |->
          setPadLED(notes[((i - 1) \div k) + 1], state)[((i - 1) % k) + 1]]

allPadsOff == setPadLEDs(NOTES, FALSE)

\* the device: a Note On with a velocity lights the pad, a Note Off clears it
Device(led, msgs) ==
    [p \in DOMAIN led |->
        LET idx == {i \in 1..Len(msgs) :
                       /\ msgs[i][2] = p
                       /\ msgs[i][1] \in {NOTE_ON + PAD_CHANNEL, NOTE_OFF + PAD_CHANNEL}}
        IN IF idx = {} THEN led[p]
           ELSE LET m == msgs[CHOOSE i \in idx : \A j \in idx : j <= i]
                IN m[1] = NOTE_ON + PAD_CHANNEL /\ m[3] > 0]

\* the steady-state indicator of a pad: the host value its mapping mirrors
Indicator(mapping, e) ==
    IF mapping.type = "hotcue"
        THEN e.hotcue[mapping.deck][mapping.number] > 0
        ELSE e.feat[mapping.deck][mapping.type] > 0

RECURSIVE syncPads(_, _, _)
syncPads(notes, pads, e) ==
    IF notes = <<>> THEN <<>>
    ELSE setPadLED(Head(notes), Indicator(pads[Head(notes)], e))
            \o syncPads(Tail(notes), pads, e)

syncFeatureLEDs(bank, e) ==
    IF bank \notin DOMAIN BankMappings THEN <<>>
    ELSE syncPads(SortedSeq(DOMAIN BankMappings[bank]), BankMappings[bank], e)

getBottomLeftToTopRightOrder ==
    Flatten([k \in 1..Len(GRID) |-> GRID[Len(GRID) + 1 - k]])

topRightToBottomLeftOrder ==
    Flatten([k \in 1..Len(GRID) |->
                [c \in 1..Len(GRID[k]) |-> GRID[k][Len(GRID[k]) + 1 - c]]])


(***************************************************************************)
(* Feedback renderer: the pure part of showZoomFeedback and                *)
(* showSuperknobFeedback (the new session fields and the LED messages)     *)
(***************************************************************************)
Prefix(order, n) == {order[i] : i \in 1..IMin(n, Len(order))}

\* a step count that rounds to the nearest step
ZoomStepsRounded(zoomLevel) ==
    LET normalizedZoom == QDiv(QSub(zoomLevel, MIN_ZOOM), QSub(MAX_ZOOM, MIN_ZOOM))
        zoomSteps == QRound(QMul(normalizedZoom, QInt(16)))
    IN IMax(0, IMin(15, zoomSteps))

\* clampedSteps of showZoomFeedback
ZoomSteps(zoomLevel) ==
    LET normalizedZoom == QDiv(QSub(zoomLevel, MIN_ZOOM), QSub(MAX_ZOOM, MIN_ZOOM))
        zoomSteps == QFloor(QMul(normalizedZoom, QInt(16)))
    IN IMax(0, IMin(15, zoomSteps))

\* targetPadStates of showZoomFeedback
ZoomTarget(clampedSteps) == Prefix(getBottomLeftToTopRightOrder, clampedSteps + 1)

\* a pad count that rounds down
SuperknobPadsFloor(superknobValue) ==
    LET distanceFromCenter == QAbs(QSub(superknobValue, <<1, 2>>))
        normalizedDistance == QMul(distanceFromCenter, QInt(2))
        padsToShow == QFloor(QMul(QSub(QInt(1), normalizedDistance), QInt(16)))
    IN IMax(0, IMin(16, padsToShow))

\* clampedPads of showSuperknobFeedback
SuperknobPads(superknobValue) ==
    LET distanceFromCenter == QAbs(QSub(superknobValue, <<1, 2>>))
        normalizedDistance == QMul(distanceFromCenter, QInt(2))
        padsToShow == QRound(QMul(QSub(QInt(1), normalizedDistance), QInt(16)))
    IN IMax(0, IMin(16, padsToShow))

SuperknobOrder(superknobValue) ==
    IF QLt(superknobValue, <<1, 2>>) THEN getBottomLeftToTopRightOrder
                                     ELSE topRightToBottomLeftOrder

\* targetPadStates of showSuperknobFeedback
SuperknobTarget(superknobValue) ==
    Prefix(SuperknobOrder(superknobValue), SuperknobPads(superknobValue))

\* "on first activation, clear all pads once": the test the code makes
FirstActivation(currentStates) == Cardinality(currentStates) = 0

\* a first loop that turns nothing off
DiffOffNone(currentStates, target) == {}

\* differential update, first loop: the pads to turn off
DiffOff(currentStates, target) == {n \in currentStates : n \notin target}

\* differential update, second loop: the pads to turn on
DiffOn(currentStates, target) == {n \in target : n \notin currentStates}

\* a redraw that turns the new pads on before it turns the old ones off
RedrawOnFirst(currentStates, target) ==
    LET off == DiffOff(currentStates, target)
        kept == currentStates \ off
        on == DiffOn(kept, target)
    IN [midi |-> (IF FirstActivation(currentStates) THEN allPadsOff ELSE <<>>)
                    \o setPadLEDs(SortedSeq(on), TRUE)
                    \o setPadLEDs(SortedSeq(off), FALSE),
        pads |-> kept \cup on]

\* the LED messages and the new currentPadStates of the path that redraws
Redraw(currentStates, target) ==
    LET off == DiffOff(currentStates, target)
        kept == currentStates \ off
        on == DiffOn(kept, target)
    IN [midi |-> (IF FirstActivation(currentStates) THEN allPadsOff ELSE <<>>)
                    \o setPadLEDs(SortedSeq(off), FALSE)
                    \o setPadLEDs(SortedSeq(on), TRUE),
        pads |-> kept \cup on]

\* the no-flicker test of showZoomFeedback
ZoomSameLevel(fb, deck, clampedSteps) ==
    fb.active /\ fb.lastLevel = clampedSteps /\ fb.deck = deck

\* a no-flicker test that never succeeds
SuperknobNeverSame(fb, deck, superknobValue) == FALSE

\* the no-flicker test of showSuperknobFeedback
SuperknobSameValue(fb, deck, superknobValue) ==
    fb.active /\ fb.lastValue = superknobValue /\ fb.deck = deck

\* showZoomFeedback without its timer: [fb, midi]
ShowZoom(fb, deck, zoomLevel) ==
    LET clampedSteps == ZoomSteps(zoomLevel) IN
    IF ZoomSameLevel(fb, deck, clampedSteps) THEN [fb |-> fb, midi |-> <<>>]
    ELSE LET r == Redraw(fb.currentPadStates, ZoomTarget(clampedSteps))
         IN [fb |-> [fb EXCEPT !.active = TRUE, !.deck = deck,
                               !.lastLevel = clampedSteps,
                               !.currentPadStates = r.pads],
             midi |-> r.midi]

\* showSuperknobFeedback without its timer: [fb, midi]
ShowSuperknob(fb, deck, superknobValue) ==
    IF SuperknobSameValue(fb, deck, superknobValue) THEN [fb |-> fb, midi |-> <<>>]
    ELSE LET r == Redraw(fb.currentPadStates, SuperknobTarget(superknobValue))
         IN [fb |-> [fb EXCEPT !.active = TRUE, !.deck = deck,
                               !.lastValue = superknobValue,
                               !.currentPadStates = r.pads],
             midi |-> r.midi]

\* a show() that begins the new timer without stopping the one the session holds
RearmWithoutStop(ts, fb, kind, id) == ts \cup {Timer(id, kind, 0, 0)}

\* both paths of show(): stop the session's timer if it holds one, then begin a new one
Rearm(ts, fb, kind, id) ==
    (IF fb.timer # 0 THEN stopTimer(ts, fb.timer) ELSE ts) \cup {Timer(id, kind, 0, 0)}

StoppedBy(fb) == IF fb.timer # 0 THEN <<fb.timer>> ELSE <<>>

\* an expiry that turns the session's pads off and leaves out the sync
EndFeedbackMidiNoSync(fb, bank, e) == setPadLEDs(SortedSeq(fb.currentPadStates), FALSE)

\* endZoomFeedback / endSuperknobFeedback: the LED messages (session pads off, then the sync)
EndFeedbackMidi(fb, bank, e) ==
    setPadLEDs(SortedSeq(fb.currentPadStates), FALSE) \o syncFeatureLEDs(bank, e)

(***************************************************************************)
(* LEDManager.showZoomFeedback(deck, zoomLevel) as a step of the script    *)
(***************************************************************************)
\* a showZoomFeedback whose full-grid clear also forgets the pads the superknob session holds
showZoomFeedbackForgetsOther(deck, zoomLevel, f) ==
    LET r == ShowZoom(zoomFeedback, deck, zoomLevel)
        id == FreshId(UsedIds)
    IN /\ zoomFeedback' = [r.fb EXCEPT !.timer = id]
       /\ timers' = Rearm(timers, zoomFeedback, "zoomEnd", id)
       /\ padLED' = Device(padLED, r.midi)
       /\ fx' = [f EXCEPT !.midi = r.midi, !.began = <<"zoomEnd">>,
                          !.stopped = StoppedBy(zoomFeedback),
                          !.show = <<ShowCall("zoom", deck, zoomLevel, zoomFeedback)>>]
       /\ superknobFeedback' =
             IF FirstActivation(zoomFeedback.currentPadStates)
                THEN [superknobFeedback EXCEPT !.currentPadStates = {}]
                ELSE superknobFeedback

showZoomFeedback(deck, zoomLevel, f) ==
    LET r == ShowZoom(zoomFeedback, deck, zoomLevel)
        id == FreshId(UsedIds)
    IN /\ zoomFeedback' = [r.fb EXCEPT !.timer = id]
       /\ timers' = Rearm(timers, zoomFeedback, "zoomEnd", id)
       /\ padLED' = Device(padLED, r.midi)
       /\ fx' = [f EXCEPT !.midi = r.midi, !.began = <<"zoomEnd">>,
                          !.stopped = StoppedBy(zoomFeedback),
                          !.show = <<ShowCall("zoom", deck, zoomLevel, zoomFeedback)>>]
       /\ UNCHANGED superknobFeedback

showSuperknobFeedback(deck, superknobValue, f) ==
    LET r == ShowSuperknob(superknobFeedback, deck, superknobValue)
        id == FreshId(UsedIds)
    IN /\ superknobFeedback' = [r.fb EXCEPT !.timer = id]
       /\ timers' = Rearm(timers, superknobFeedback, "superknobEnd", id)
       /\ padLED' = Device(padLED, r.midi)
       /\ fx' = [f EXCEPT !.midi = r.midi, !.began = <<"superknobEnd">>,
                          !.stopped = StoppedBy(superknobFeedback),
                          !.show = <<ShowCall("superknob", deck, superknobValue,
                                              superknobFeedback)>>]
       /\ UNCHANGED zoomFeedback


(***************************************************************************)
(* Controllers.handleNRPN: the action handlers                             *)
(***************************************************************************)
W(group, deck, control, num, value) == <<group, deck, control, num, value>>

Clamp(x, lo, hi) == QMax(lo, QMin(hi, x))

\* a zoom step that ignores the configured direction reversal
NewZoomNoReverse(current, direction, speed, reverse) ==
    LET zoomFactor == QAdd(QInt(1), QMul(QMul(QInt(direction), speed), <<5, 100>>))
    IN Clamp(QMul(current, zoomFactor), MIN_ZOOM, MAX_ZOOM)

\* an additive zoom step
NewZoomAdditive(current, direction, speed, reverse) ==
    LET actualDirection == IF reverse THEN -direction ELSE direction
        delta == QMul(QMul(QInt(actualDirection), speed), <<5, 100>>)
    IN Clamp(QAdd(current, delta), MIN_ZOOM, MAX_ZOOM)

\* newZoom of handleZoom
NewZoom(current, direction, speed, reverse) ==
    LET actualDirection == IF reverse THEN -direction ELSE direction
        zoomFactor == QAdd(QInt(1), QMul(QMul(QInt(actualDirection), speed), <<5, 100>>))
    IN Clamp(QMul(current, zoomFactor), MIN_ZOOM, MAX_ZOOM)

\* a zoom handler that shows the level whatever the configuration says
handleZoomAlwaysShows(deck, direction, speed, f) ==
    LET newZoom == NewZoom(eng.zoom[deck], direction, speed, config.reverseDirection)
        g == [f EXCEPT !.writes = <<W("Channel", deck, "waveform_zoom", 0, newZoom)>>,
                       !.before = <<eng.zoom[deck]>>]
    IN /\ eng' = [eng EXCEPT !.zoom[deck] = newZoom]
       /\ showZoomFeedback(deck, newZoom, g)
       /\ UNCHANGED beatjumpRate

handleZoom(deck, direction, speed, f) ==
    LET newZoom == NewZoom(eng.zoom[deck], direction, speed, config.reverseDirection)
        g == [f EXCEPT !.writes = <<W("Channel", deck, "waveform_zoom", 0, newZoom)>>,
                       !.before = <<eng.zoom[deck]>>]
    IN /\ eng' = [eng EXCEPT !.zoom[deck] = newZoom]
       /\ IF config.enabled
             THEN showZoomFeedback(deck, newZoom, g)
             ELSE /\ fx' = g
                  /\ UNCHANGED <<zoomFeedback, superknobFeedback, timers, padLED>>
       /\ UNCHANGED beatjumpRate

\* a beatgrid handler that nudges by one step at most
handleBeatgridClamped(deck, direction, speed, f) ==
    LET delta == QMul(QInt(direction), IF speed[1] = 0 THEN QInt(1) ELSE speed)
        clamped == Clamp(delta, QInt(-1), QInt(1))
    IN /\ fx' = [f EXCEPT !.writes = <<W("Channel", deck, "beats_translate_move", 0, clamped)>>]
       /\ UNCHANGED <<eng, zoomFeedback, superknobFeedback, timers, padLED, beatjumpRate>>

handleBeatgrid(deck, direction, speed, f) ==
    LET delta == QMul(QInt(direction), IF speed[1] = 0 THEN QInt(1) ELSE speed)
    IN /\ fx' = [f EXCEPT !.writes = <<W("Channel", deck, "beats_translate_move", 0, delta)>>]
       /\ UNCHANGED <<eng, zoomFeedback, superknobFeedback, timers, padLED, beatjumpRate>>

handleJogwheel(deck, direction, speed, f) ==
    LET delta == QMul(QMul(QInt(direction), speed), <<1, 100>>)
    IN /\ fx' = [f EXCEPT !.writes = <<W("Channel", deck, "jog", 0, delta)>>]
       /\ UNCHANGED <<eng, zoomFeedback, superknobFeedback, timers, padLED, beatjumpRate>>

\* a superknob step ten times as coarse
NewSuperknobCoarse(current, direction, speed) ==
    LET delta == QMul(QMul(QInt(direction), <<1, 100>>), speed)
    IN Clamp(QAdd(current, delta), QInt(0), QInt(1))

\* newValue of handleSuperknob
NewSuperknob(current, direction, speed) ==
    LET delta == QMul(QMul(QInt(direction), <<1, 1000>>), speed)
    IN Clamp(QAdd(current, delta), QInt(0), QInt(1))

handleSuperknob(deck, direction, speed, f) ==
    LET newValue == NewSuperknob(eng.super1[deck], direction, speed)
        g == [f EXCEPT !.writes = <<W("QuickEffectRack1_Channel", deck, "super1", 0, newValue)>>,
                       !.before = <<eng.super1[deck]>>]
    IN /\ eng' = [eng EXCEPT !.super1[deck] = newValue]
       /\ showSuperknobFeedback(deck, newValue, g)
       /\ UNCHANGED beatjumpRate

\* a rate tracker that takes a gap of exactly 150 ms for slow turning
NextMultiplierResetAt150(multiplier, timeSinceLastIncrement) ==
    IF timeSinceLastIncrement < 50
        THEN IF multiplier < 2 THEN 2 ELSE IF multiplier < 4 THEN 4 ELSE 8
    ELSE IF timeSinceLastIncrement < 100
        THEN IF multiplier < 2 THEN 2 ELSE multiplier
    ELSE IF timeSinceLastIncrement >= 150 THEN 1
    ELSE multiplier

\* a rate tracker whose fast branch doubles the multiplier without a ceiling
NextMultiplierDoubling(multiplier, timeSinceLastIncrement) ==
    IF timeSinceLastIncrement < 50 THEN multiplier * 2
    ELSE IF timeSinceLastIncrement < 100
        THEN IF multiplier < 2 THEN 2 ELSE multiplier
    ELSE IF timeSinceLastIncrement > 150 THEN 1
    ELSE multiplier

\* the multiplier after a tick that comes timeSinceLastIncrement ms after the previous one
NextMultiplier(multiplier, timeSinceLastIncrement) ==
    IF timeSinceLastIncrement < 50
        THEN IF multiplier < 2 THEN 2 ELSE IF multiplier < 4 THEN 4 ELSE 8
    ELSE IF timeSinceLastIncrement < 100
        THEN IF multiplier < 2 THEN 2 ELSE multiplier
    ELSE IF timeSinceLastIncrement > 150 THEN 1
    ELSE multiplier

\* a handler that clamps to the track's end after a jump that lands exactly on it
BeatJumpWritesEndExclusive(deck, direction, beatSize, e) ==
    LET currentPos == e.pos[deck]
        trackDuration == e.dur[deck]
        currentTime == QMul(currentPos, trackDuration)
        bpm == e.bpm[deck]
        pulse == << W("Channel", deck, "beatjump_size", 0, QInt(beatSize)),
                    W("Channel", deck,
                      IF direction > 0 THEN "beatjump_forward" ELSE "beatjump_backward",
                      0, QInt(1)) >>
    IN IF bpm[1] > 0 /\ trackDuration[1] > 0
          THEN LET secondsPerBeat == QDiv(QInt(60), bpm)
                   jumpSeconds == QMul(QMul(QInt(beatSize), secondsPerBeat), QInt(direction))
                   newTime == QAdd(currentTime, jumpSeconds)
               IN IF QGe(newTime, QInt(0)) /\ QLt(newTime, trackDuration) THEN pulse
                  ELSE IF QLt(newTime, QInt(0))
                      THEN << W("Channel", deck, "playposition", 0, QInt(0)) >>
                      ELSE << W("Channel", deck, "playposition", 0, <<999, 1000>>) >>
          ELSE pulse

\* a handler that does nothing when the host has no bpm or no duration
BeatJumpWritesNoFallback(deck, direction, beatSize, e) ==
    LET currentPos == e.pos[deck]
        trackDuration == e.dur[deck]
        currentTime == QMul(currentPos, trackDuration)
        bpm == e.bpm[deck]
        pulse == << W("Channel", deck, "beatjump_size", 0, QInt(beatSize)),
                    W("Channel", deck,
                      IF direction > 0 THEN "beatjump_forward" ELSE "beatjump_backward",
                      0, QInt(1)) >>
    IN IF bpm[1] > 0 /\ trackDuration[1] > 0
          THEN LET secondsPerBeat == QDiv(QInt(60), bpm)
                   jumpSeconds == QMul(QMul(QInt(beatSize), secondsPerBeat), QInt(direction))
                   newTime == QAdd(currentTime, jumpSeconds)
               IN IF QGe(newTime, QInt(0)) /\ QLe(newTime, trackDuration) THEN pulse
                  ELSE IF QLt(newTime, QInt(0))
                      THEN << W("Channel", deck, "playposition", 0, QInt(0)) >>
                      ELSE << W("Channel", deck, "playposition", 0, <<999, 1000>>) >>
          ELSE <<>>

\* the host calls of handleBeatJump once the jump size is known
BeatJumpWrites(deck, direction, beatSize, e) ==
    LET currentPos == e.pos[deck]
        trackDuration == e.dur[deck]
        currentTime == QMul(currentPos, trackDuration)
        bpm == e.bpm[deck]
        pulse == << W("Channel", deck, "beatjump_size", 0, QInt(beatSize)),
                    W("Channel", deck,
                      IF direction > 0 THEN "beatjump_forward" ELSE "beatjump_backward",
                      0, QInt(1)) >>
    IN IF bpm[1] > 0 /\ trackDuration[1] > 0
          THEN LET secondsPerBeat == QDiv(QInt(60), bpm)
                   jumpSeconds == QMul(QMul(QInt(beatSize), secondsPerBeat), QInt(direction))
                   newTime == QAdd(currentTime, jumpSeconds)
               IN IF QGe(newTime, QInt(0)) /\ QLe(newTime, trackDuration) THEN pulse
                  ELSE IF QLt(newTime, QInt(0))
                      THEN << W("Channel", deck, "playposition", 0, QInt(0)) >>
                      ELSE << W("Channel", deck, "playposition", 0, <<999, 1000>>) >>
          ELSE pulse

\* a handler that keeps one last-tick time for all decks
handleBeatJumpSharedClock(deck, direction, speed, f) ==
    LET first == beatjumpRate.lastTime[deck] = 0
        latest == CHOOSE t \in Range(beatjumpRate.lastTime) :
                     \A u \in Range(beatjumpRate.lastTime) : u <= t
        lastTime == IF first THEN now ELSE latest
        multiplier == IF first THEN 1 ELSE beatjumpRate.multiplier[deck]
        timeSinceLastIncrement == now - lastTime
        beatSize == NextMultiplier(multiplier, timeSinceLastIncrement)
        ws == BeatJumpWrites(deck, direction, beatSize, eng)
    IN /\ beatjumpRate' = [lastTime |-> [beatjumpRate.lastTime EXCEPT ![deck] = now],
                           multiplier |-> [beatjumpRate.multiplier EXCEPT ![deck] = beatSize]]
       /\ eng' = IF Len(ws) = 1 THEN [eng EXCEPT !.pos[deck] = ws[1][5]] ELSE eng
       /\ fx' = [f EXCEPT !.writes = ws,
                          !.ticks = Append(fx.ticks,
                                           Tick(deck, first, timeSinceLastIncrement,
                                                multiplier, beatSize))]
       /\ UNCHANGED <<zoomFeedback, superknobFeedback, timers, padLED>>

handleBeatJump(deck, direction, speed, f) ==
    LET first == beatjumpRate.lastTime[deck] = 0
        lastTime == IF first THEN now ELSE beatjumpRate.lastTime[deck]
        multiplier == IF first THEN 1 ELSE beatjumpRate.multiplier[deck]
        timeSinceLastIncrement == now - lastTime
        beatSize == NextMultiplier(multiplier, timeSinceLastIncrement)
        ws == BeatJumpWrites(deck, direction, beatSize, eng)
    IN /\ beatjumpRate' = [lastTime |-> [beatjumpRate.lastTime EXCEPT ![deck] = now],
                           multiplier |-> [beatjumpRate.multiplier EXCEPT ![deck] = beatSize]]
       /\ eng' = IF Len(ws) = 1 THEN [eng EXCEPT !.pos[deck] = ws[1][5]] ELSE eng
       /\ fx' = [f EXCEPT !.writes = ws,
                          !.ticks = Append(fx.ticks,
                                           Tick(deck, first, timeSinceLastIncrement,
                                                multiplier, beatSize))]
       /\ UNCHANGED <<zoomFeedback, superknobFeedback, timers, padLED>>

\* Controllers.handleNRPN.processMotion(channel, increment, value); ch is channel + 1
processMotion(ch, increment, value, op) ==
    /\ IF ch \notin DOMAIN EncoderMappings
          THEN /\ fx' = Fx(op, ch, value)
               /\ UNCHANGED <<eng, zoomFeedback, superknobFeedback, timers, padLED,
                              beatjumpRate>>
          ELSE LET mapping == EncoderMappings[ch]
                   direction == IF increment THEN 1 ELSE -1
                   speed == QMul(QInt(value),
                                 IF mapping.speed[1] = 0 THEN QInt(1) ELSE mapping.speed)
                   f == [Fx(op, ch, value) EXCEPT !.dispatch = mapping.type]
               IN CASE mapping.type = "zoom" -> handleZoom(mapping.deck, direction, speed, f)
                    [] mapping.type = "beatgrid" ->
                           handleBeatgrid(mapping.deck, direction, speed, f)
                    [] mapping.type = "jogwheel" ->
                           handleJogwheel(mapping.deck, direction, speed, f)
                    [] mapping.type = "beatjump" ->
                           handleBeatJump(mapping.deck, direction, speed, f)
                    [] mapping.type = "superknob" ->
                           handleSuperknob(mapping.deck, direction, speed, f)
    /\ UNCHANGED <<initialized, registered, currentBank, stTimers, nrpnParams, now, config,
                   EncoderMappings>>
    /\ UNCHANGED legacyVars


(***************************************************************************)
(* MIDIHandlers: NRPN parameter select and motion (ch is the 1-based MIDI  *)
(* channel, (status & 0x0F) + 1)                                           *)
(***************************************************************************)
\* Controllers.handleNRPN.setParameter: (msb << 7) | lsb
setParameter(msb, lsb) == msb * 128 + lsb

\* nrpnParams[ch] after nrpnMSB
AfterMSB(p, value) == [p EXCEPT !.present = TRUE, !.msb = value]

\* nrpnParams[ch] after nrpnLSB
AfterLSB(p, value) ==
    [p EXCEPT !.present = TRUE, !.lsb = value,
              !.param = IF p.msb # -1 THEN setParameter(p.msb, value) ELSE p.param]

\* a handler that indexes State.nrpnParams by the 0-based channel (status & 0x0F) when it
\* stores the parameter number
StoreLSBZeroBased(params, ch, value) ==
    LET stored == [params EXCEPT ![ch] = [@ EXCEPT !.present = TRUE, !.lsb = value]]
    IN IF params[ch].msb # -1 /\ ch - 1 \in DOMAIN params
          THEN [stored EXCEPT ![ch - 1] =
                   [@ EXCEPT !.present = TRUE,
                             !.param = setParameter(params[ch].msb, value)]]
          ELSE stored

\* State.nrpnParams after nrpnLSB on channel ch: the byte and, through setParameter, the
\* parameter number are stored under midiChannel + 1
StoreLSB(params, ch, value) == [params EXCEPT ![ch] = AfterLSB(params[ch], value)]

nrpnMSB(ch, value) ==
    /\ registered
    /\ nrpnParams' = [nrpnParams EXCEPT ![ch] = AfterMSB(nrpnParams[ch], value)]
    /\ fx' = Fx("nrpnMSB", ch, value)
    /\ UNCHANGED <<initialized, registered, currentBank, stTimers, zoomFeedback,
                   superknobFeedback, beatjumpRate, timers, eng, now, padLED, config,
                   EncoderMappings>>
    /\ UNCHANGED legacyVars

nrpnLSB(ch, value) ==
    /\ registered
    /\ nrpnParams' = StoreLSB(nrpnParams, ch, value)
    /\ fx' = Fx("nrpnLSB", ch, value)
    /\ UNCHANGED <<initialized, registered, currentBank, stTimers, zoomFeedback,
                   superknobFeedback, beatjumpRate, timers, eng, now, padLED, config,
                   EncoderMappings>>
    /\ UNCHANGED legacyVars

nrpnIncrement(ch, value) ==
    /\ registered
    /\ processMotion(ch, TRUE, value, "nrpnIncrement")

nrpnDecrement(ch, value) ==
    /\ registered
    /\ processMotion(ch, FALSE, value, "nrpnDecrement")

\* processMotion for a mapping {type: "jogwheel", deck, speed: Config.encoders.jogwheelSpeed}:
\* no channel of the generated mappings has this type, the handler is reached only through
\* a mapping the user adds
jogwheelMotion(deck, increment, value) ==
    /\ registered
    /\ LET direction == IF increment THEN 1 ELSE -1
           speed == QMul(QInt(value),
                         IF config.jogwheelSpeed[1] = 0 THEN QInt(1) ELSE config.jogwheelSpeed)
           f == [Fx("jogwheelMotion", deck, direction * value) EXCEPT !.dispatch = "jogwheel"]
       IN handleJogwheel(deck, direction, speed, f)
    /\ UNCHANGED <<initialized, registered, currentBank, stTimers, nrpnParams, now, config,
                   EncoderMappings>>
    /\ UNCHANGED legacyVars

(***************************************************************************)
(* The environment of the beat-jump handler: the clock behind Date.now()   *)
(* and the track values the host reports                                   *)
(***************************************************************************)
\* dt milliseconds pass
clockAdvance(dt) ==
    /\ now' = now + dt
    /\ fx' = [Fx("clockAdvance", 0, dt) EXCEPT !.ticks = fx.ticks]
    /\ UNCHANGED <<initialized, registered, currentBank, stTimers, nrpnParams, zoomFeedback,
                   superknobFeedback, beatjumpRate, timers, eng, padLED, config,
                   EncoderMappings>>
    /\ UNCHANGED legacyVars

\* the host's playposition, duration and bpm of a deck become pos, dur and bpm (a track is
\* loaded, ejected or played)
hostTrack(deck, pos, dur, bpm) ==
    /\ eng' = [eng EXCEPT !.pos[deck] = pos, !.dur[deck] = dur, !.bpm[deck] = bpm]
    /\ fx' = [Fx("hostTrack", deck, 0) EXCEPT !.ticks = fx.ticks]
    /\ UNCHANGED <<initialized, registered, currentBank, stTimers, nrpnParams, zoomFeedback,
                   superknobFeedback, beatjumpRate, timers, now, padLED, config,
                   EncoderMappings>>
    /\ UNCHANGED legacyVars

\* the host's waveform zoom of a deck becomes z (the user zooms in the host)
hostZoom(deck, z) ==
    /\ eng' = [eng EXCEPT !.zoom[deck] = z]
    /\ fx' = Fx("hostZoom", deck, 0)
    /\ UNCHANGED <<initialized, registered, currentBank, stTimers, nrpnParams, zoomFeedback,
                   superknobFeedback, beatjumpRate, timers, now, padLED, config,
                   EncoderMappings>>
    /\ UNCHANGED legacyVars

\* the host's quick-effect super knob of a deck becomes v
hostSuper1(deck, v) ==
    /\ eng' = [eng EXCEPT !.super1[deck] = v]
    /\ fx' = Fx("hostSuper1", deck, 0)
    /\ UNCHANGED <<initialized, registered, currentBank, stTimers, nrpnParams, zoomFeedback,
                   superknobFeedback, beatjumpRate, timers, now, padLED, config,
                   EncoderMappings>>
    /\ UNCHANGED legacyVars

(***************************************************************************)
(* Configuration utilities                                                 *)
(***************************************************************************)
\* MPD218.setZoomFeedback(enabled, duration, reverse); an argument is <<>> when undefined
\* and <<value>> otherwise
setZoomFeedback(enabled, duration, reverse) ==
    /\ config' = [config EXCEPT
                     !.enabled = IF enabled # <<>> THEN enabled[1] ELSE @,
                     !.duration = IF duration # <<>> THEN duration[1] ELSE @,
                     !.reverseDirection = IF reverse # <<>> THEN reverse[1] ELSE @]
    /\ fx' = Fx("setZoomFeedback", 0, 0)
    /\ UNCHANGED <<initialized, registered, currentBank, stTimers, nrpnParams, zoomFeedback,
                   superknobFeedback, beatjumpRate, timers, eng, now, padLED,
                   EncoderMappings>>
    /\ UNCHANGED legacyVars

\* isValidSpeed of setEncoderSpeeds
isValidSpeed(val) ==
    val = <<>> \/ (QGt(val[1], QInt(0)) /\ QLt(val[1], QInt(MAX_ENCODER_SPEED)))

\* a setter that applies each speed that is valid and skips the others
setEncoderSpeedsOneByOne(zoomFast, zoomSlow, beatgrid, jogwheel, scrub) ==
    LET Applies(val) == val # <<>> /\ isValidSpeed(val)
        cfg == [config EXCEPT
                   !.zoomFast = IF Applies(zoomFast) THEN zoomFast[1] ELSE @,
                   !.zoomSlow = IF Applies(zoomSlow) THEN zoomSlow[1] ELSE @,
                   !.beatgridSpeed = IF Applies(beatgrid) THEN beatgrid[1] ELSE @,
                   !.jogwheelSpeed = IF Applies(jogwheel) THEN jogwheel[1] ELSE @,
                   !.scrubSpeed = IF Applies(scrub) THEN scrub[1] ELSE @]
    IN /\ config' = cfg
       /\ EncoderMappings' = generateEncoderMappings(cfg)
       /\ fx' = [Fx("setEncoderSpeeds", 0, 0) EXCEPT
                    !.before = <<zoomFast, zoomSlow, beatgrid, jogwheel, scrub>>]
       /\ UNCHANGED <<initialized, registered, currentBank, stTimers, nrpnParams,
                      zoomFeedback, superknobFeedback, beatjumpRate, timers, eng, now,
                      padLED>>
       /\ UNCHANGED legacyVars

\* MPD218.setEncoderSpeeds(zoomFast, zoomSlow, beatgrid, jogwheel, scrub); an argument is
\* <<>> when undefined and <<value>> otherwise
setEncoderSpeeds(zoomFast, zoomSlow, beatgrid, jogwheel, scrub) ==
    LET valid == /\ isValidSpeed(zoomFast) /\ isValidSpeed(zoomSlow)
                 /\ isValidSpeed(beatgrid) /\ isValidSpeed(jogwheel) /\ isValidSpeed(scrub)
        cfg == [config EXCEPT
                   !.zoomFast = IF zoomFast # <<>> THEN zoomFast[1] ELSE @,
                   !.zoomSlow = IF zoomSlow # <<>> THEN zoomSlow[1] ELSE @,
                   !.beatgridSpeed = IF beatgrid # <<>> THEN beatgrid[1] ELSE @,
                   !.jogwheelSpeed = IF jogwheel # <<>> THEN jogwheel[1] ELSE @,
                   !.scrubSpeed = IF scrub # <<>> THEN scrub[1] ELSE @]
    IN /\ IF valid
             THEN /\ config' = cfg
                  /\ EncoderMappings' = generateEncoderMappings(cfg)
             ELSE UNCHANGED <<config, EncoderMappings>>
       /\ fx' = [Fx("setEncoderSpeeds", 0, 0) EXCEPT
                    !.before = <<zoomFast, zoomSlow, beatgrid, jogwheel, scrub>>]
       /\ UNCHANGED <<initialized, registered, currentBank, stTimers, nrpnParams,
                      zoomFeedback, superknobFeedback, beatjumpRate, timers, eng, now,
                      padLED>>
       /\ UNCHANGED legacyVars

(***************************************************************************)
(* Legacy script (src/unnamed/part_000): NRPN handlers, as registered by   *)
(* its setupMIDIHandlers for the channels of nrpnState.channels            *)
(***************************************************************************)
nrpnChannelMappings ==
    [c \in {1, 2, 3, 4, 5, 6, 9, 11, 12, 13} |->
        IF c \in 1..4 THEN [deck |-> c, control |-> "beats_translate_move", speed |-> <<1, 1>>]
        ELSE IF c = 5 THEN [deck |-> 1, control |-> "waveform_zoom_nrpn", speed |-> <<12, 1>>]
        ELSE IF c = 6 THEN [deck |-> 1, control |-> "waveform_zoom_nrpn", speed |-> <<1, 1>>]
        ELSE [deck |-> IF c = 9 THEN 1 ELSE c - 9, control |-> "jogwheel_nrpn",
              speed |-> <<3, 1>>]]

reverseZoom == TRUE

\* channelState after handleNRPNMSB / handleNRPNLSB stored the byte
LegacyParameter(msb, lsb) ==
    IF msb = 127 /\ lsb = 127 THEN -1 ELSE msb * 128 + lsb

handleNRPNMSB(ch, value) ==
    /\ ch \in DOMAIN nrpnState
    /\ nrpnState' = [nrpnState EXCEPT ![ch] =
                        [msb |-> value, lsb |-> @.lsb,
                         currentParameter |-> LegacyParameter(value, @.lsb)]]
    /\ fx' = Fx("handleNRPNMSB", ch, value)
    /\ UNCHANGED legacyEng
    /\ UNCHANGED scriptVars

handleNRPNLSB(ch, value) ==
    /\ ch \in DOMAIN nrpnState
    /\ nrpnState' = [nrpnState EXCEPT ![ch] =
                        [msb |-> @.msb, lsb |-> value,
                         currentParameter |-> LegacyParameter(@.msb, value)]]
    /\ fx' = Fx("handleNRPNLSB", ch, value)
    /\ UNCHANGED legacyEng
    /\ UNCHANGED scriptVars

\* newZoom of handleNRPNZoom
LegacyNewZoom(currentZoom, value, speed, direction) ==
    LET stepSize == QMul(QMul(QInt(value), speed), <<1, 100>>)
        effectiveDirection == IF reverseZoom
                                  THEN (IF direction = "increment" THEN "decrement"
                                                                   ELSE "increment")
                                  ELSE direction
    IN IF effectiveDirection = "increment"
          THEN QMax(<<1, 10>>, QSub(currentZoom, stepSize))
          ELSE QMin(QInt(64), QAdd(currentZoom, stepSize))

\* newPosition of handleNRPNJogwheel
LegacyNewPosition(currentPosition, value, speed, direction) ==
    LET relativeMovement == QRound(QMul(QInt(value), speed))
        movementStep == Q(relativeMovement, 6400)
    IN IF direction = "increment" THEN QMin(QInt(1), QAdd(currentPosition, movementStep))
                                  ELSE QMax(QInt(0), QSub(currentPosition, movementStep))

\* a handler without the test: every channel counts as having a parameter selected
LegacyParameterIgnored(channelState) == TRUE

\* the test handleNRPNIncrement / handleNRPNDecrement make before they look the mapping up
LegacyParameterSelected(channelState) == channelState.currentParameter # -1

\* handleNRPNIncrement / handleNRPNDecrement (direction "increment" / "decrement")
legacyMotion(ch, value, direction, op) ==
    /\ ch \in DOMAIN nrpnState
    /\ IF ~LegacyParameterSelected(nrpnState[ch]) \/ ch \notin DOMAIN nrpnChannelMappings
          THEN /\ fx' = Fx(op, ch, value)
               /\ UNCHANGED legacyEng
          ELSE LET mapping == nrpnChannelMappings[ch]
                   f == [Fx(op, ch, value) EXCEPT !.dispatch = mapping.control]
               IN CASE mapping.control = "waveform_zoom_nrpn" ->
                         LET newZoom == LegacyNewZoom(legacyEng.zoom[mapping.deck], value,
                                                      mapping.speed, direction)
                         IN /\ legacyEng' = [legacyEng EXCEPT !.zoom[mapping.deck] = newZoom]
                            /\ fx' = [f EXCEPT !.writes =
                                        IF newZoom # legacyEng.zoom[mapping.deck]
                                            THEN <<W("Channel", mapping.deck, "waveform_zoom",
                                                     0, newZoom)>>
                                            ELSE <<>>]
                    [] mapping.control = "beats_translate_move" ->
                         /\ fx' = [f EXCEPT !.writes =
                                     <<W("Channel", mapping.deck, "beats_translate_move", 0,
                                         QInt(IF direction = "increment" THEN 1 ELSE -1))>>]
                         /\ UNCHANGED legacyEng
                    [] mapping.control = "jogwheel_nrpn" ->
                         LET newPosition == LegacyNewPosition(legacyEng.pos[mapping.deck],
                                                value, mapping.speed, direction)
                         IN /\ legacyEng' = [legacyEng EXCEPT !.pos[mapping.deck] = newPosition]
                            /\ fx' = [f EXCEPT !.writes =
                                        <<W("Channel", mapping.deck, "playposition", 0,
                                            newPosition)>>]
    /\ UNCHANGED nrpnState
    /\ UNCHANGED scriptVars

handleNRPNIncrement(ch, value) == legacyMotion(ch, value, "increment", "handleNRPNIncrement")

handleNRPNDecrement(ch, value) == legacyMotion(ch, value, "decrement", "handleNRPNDecrement")


(***************************************************************************)
(* Controllers.handlePad and the engine callbacks                          *)
(***************************************************************************)
\* a pad handler that tests the zoom session alone
PadSwallowedZoomOnly(zf, sf) == zf.active

\* the test handlePad makes before it looks at the bank: TRUE when the press is ignored
PadSwallowed(zf, sf) == zf.active \/ sf.active

\* the value a feature toggle writes: !current
Toggled(current) == IF current = 0 THEN 1 ELSE 0

\* MPD218.MIDIHandlers.padPress -> Controllers.handlePad(channel, control, value, ...)
padPress(control, value) ==
    /\ registered
    /\ control \in Pads
    /\ IF value = 0 \/ PadSwallowed(zoomFeedback, superknobFeedback)
            \/ currentBank \notin DOMAIN BankMappings
            \/ control \notin DOMAIN BankMappings[currentBank]
          THEN /\ fx' = Fx("padPress", control, value)
               /\ UNCHANGED <<eng, timers>>
          ELSE LET mapping == BankMappings[currentBank][control]
                   id == FreshId(UsedIds)
                   f == [Fx("padPress", control, value) EXCEPT
                            !.dispatch = mapping.type, !.began = <<"padLed">>]
               IN /\ timers' = timers \cup {Timer(id, "padLed", control, currentBank)}
                  /\ IF mapping.type = "hotcue"
                        THEN /\ fx' = [f EXCEPT !.writes =
                                        <<W("Channel", mapping.deck, "hotcue_activate",
                                            mapping.number, QInt(1))>>]
                             /\ UNCHANGED eng
                        ELSE LET v == Toggled(eng.feat[mapping.deck][mapping.type])
                             IN /\ eng' = [eng EXCEPT !.feat[mapping.deck][mapping.type] = v]
                                /\ fx' = [f EXCEPT !.writes =
                                           <<W("Channel", mapping.deck, mapping.type, 0,
                                               QInt(v))>>]
    /\ UNCHANGED <<initialized, registered, currentBank, stTimers, nrpnParams, zoomFeedback,
                   superknobFeedback, beatjumpRate, now, padLED, config, EncoderMappings>>
    /\ UNCHANGED legacyVars

\* the deferred LED update handlePad schedules, when its timer fires
padLedTimer(t) ==
    /\ t \in timers
    /\ t.kind = "padLed"
    /\ LET msgs == setPadLED(t.a, Indicator(BankMappings[t.b][t.a], eng))
       IN /\ padLED' = Device(padLED, msgs)
          /\ fx' = [Fx("padLedTimer", t.a, 0) EXCEPT !.midi = msgs]
    /\ timers' = timers \ {t}
    /\ UNCHANGED <<initialized, registered, currentBank, stTimers, nrpnParams, zoomFeedback,
                   superknobFeedback, beatjumpRate, eng, now, config, EncoderMappings>>
    /\ UNCHANGED legacyVars

\* a lookup that takes the first hotcue pad of the deck, whatever its number
findPadForMappingAnyNumber(bank, deck, type, number) ==
    LET hits == IF bank \notin DOMAIN BankMappings THEN {}
                ELSE {n \in DOMAIN BankMappings[bank] :
                        /\ BankMappings[bank][n].deck = deck
                        /\ BankMappings[bank][n].type = type}
    IN IF hits = {} THEN 0 ELSE CHOOSE n \in hits : \A m \in hits : n <= m

\* Utils.findPadForMapping: the first pad of the current bank with that mapping, 0 for null
findPadForMapping(bank, deck, type, number) ==
    LET hits == IF bank \notin DOMAIN BankMappings THEN {}
                ELSE {n \in DOMAIN BankMappings[bank] :
                        /\ BankMappings[bank][n].deck = deck
                        /\ BankMappings[bank][n].type = type
                        /\ (type = "hotcue" => BankMappings[bank][n].number = number)}
    IN IF hits = {} THEN 0 ELSE CHOOSE n \in hits : \A m \in hits : n <= m

\* the LED messages of EngineCallbacks.hotcueChanged / featureChanged
CallbackMidi(bank, deck, type, number, value) ==
    LET padNote == findPadForMapping(bank, deck, type, number)
    IN IF padNote # 0 THEN setPadLED(padNote, value > 0) ELSE <<>>

\* the host changes hotcue_<number>_status of a deck and notifies the script
hotcueChanged(value, deck, number) ==
    /\ registered
    /\ eng' = [eng EXCEPT !.hotcue[deck][number] = value]
    /\ LET msgs == CallbackMidi(currentBank, deck, "hotcue", number, value)
       IN /\ padLED' = Device(padLED, msgs)
          /\ fx' = [Fx("hotcueChanged", deck, value) EXCEPT
                       !.midi = msgs, !.dispatch = "hotcue", !.before = <<number>>]
    /\ UNCHANGED <<initialized, registered, currentBank, stTimers, nrpnParams, zoomFeedback,
                   superknobFeedback, beatjumpRate, timers, now, config, EncoderMappings>>
    /\ UNCHANGED legacyVars

\* the host changes a feature toggle of a deck and notifies the script
featureChanged(value, deck, control) ==
    /\ registered
    /\ eng' = [eng EXCEPT !.feat[deck][control] = value]
    /\ LET msgs == CallbackMidi(currentBank, deck, control, 0, value)
       IN /\ padLED' = Device(padLED, msgs)
          /\ fx' = [Fx("featureChanged", deck, value) EXCEPT
                       !.midi = msgs, !.dispatch = control]
    /\ UNCHANGED <<initialized, registered, currentBank, stTimers, nrpnParams, zoomFeedback,
                   superknobFeedback, beatjumpRate, timers, now, config, EncoderMappings>>
    /\ UNCHANGED legacyVars

\* MPD218.setBank(bankNum)
setBank(bankNum) ==
    /\ registered
    /\ IF bankNum >= 1 /\ bankNum <= MAX_BANKS
          THEN LET msgs == syncFeatureLEDs(bankNum, eng)
               IN /\ currentBank' = bankNum
                  /\ padLED' = Device(padLED, msgs)
                  /\ fx' = [Fx("setBank", bankNum, 0) EXCEPT !.midi = msgs]
          ELSE /\ fx' = Fx("setBank", bankNum, 0)
               /\ UNCHANGED <<currentBank, padLED>>
    /\ UNCHANGED <<initialized, registered, stTimers, nrpnParams, zoomFeedback,
                   superknobFeedback, beatjumpRate, timers, eng, now, config,
                   EncoderMappings>>
    /\ UNCHANGED legacyVars

(***************************************************************************)
(* Expiry of the feedback sessions                                         *)
(***************************************************************************)
\* the zoom session's timer fires: LEDManager.endZoomFeedback
endZoomFeedback(t) ==
    /\ t \in timers
    /\ t.kind = "zoomEnd"
    /\ LET msgs == EndFeedbackMidi(zoomFeedback, currentBank, eng)
       IN /\ padLED' = Device(padLED, msgs)
          /\ fx' = [Fx("endZoomFeedback", t.id, 0) EXCEPT
                       !.midi = msgs, !.ended = <<zoomFeedback>>]
    /\ zoomFeedback' = InactiveZoom
    /\ timers' = timers \ {t}
    /\ UNCHANGED <<initialized, registered, currentBank, stTimers, nrpnParams,
                   superknobFeedback, beatjumpRate, eng, now, config, EncoderMappings>>
    /\ UNCHANGED legacyVars

\* the superknob session's timer fires: LEDManager.endSuperknobFeedback
endSuperknobFeedback(t) ==
    /\ t \in timers
    /\ t.kind = "superknobEnd"
    /\ LET msgs == EndFeedbackMidi(superknobFeedback, currentBank, eng)
       IN /\ padLED' = Device(padLED, msgs)
          /\ fx' = [Fx("endSuperknobFeedback", t.id, 0) EXCEPT
                       !.midi = msgs, !.ended = <<superknobFeedback>>]
    /\ superknobFeedback' = InactiveSuperknob
    /\ timers' = timers \ {t}
    /\ UNCHANGED <<initialized, registered, currentBank, stTimers, nrpnParams,
                   zoomFeedback, beatjumpRate, eng, now, config, EncoderMappings>>
    /\ UNCHANGED legacyVars

\* MPD218.testZoomFeedback(zoomLevel): show() called from the console (which is there once
\* Mixxx has loaded the script and called init())
testZoomFeedback(zoomLevel) ==
    /\ registered
    /\ showZoomFeedback(1, zoomLevel, Fx("testZoomFeedback", 1, 0))
    /\ UNCHANGED <<initialized, registered, currentBank, stTimers, nrpnParams,
                   beatjumpRate, eng, now, config, EncoderMappings>>
    /\ UNCHANGED legacyVars

\* MPD218.testSuperknobFeedback(value): show() called from the console
testSuperknobFeedback(value) ==
    /\ registered
    /\ showSuperknobFeedback(1, value, Fx("testSuperknobFeedback", 1, 0))
    /\ UNCHANGED <<initialized, registered, currentBank, stTimers, nrpnParams,
                   beatjumpRate, eng, now, config, EncoderMappings>>
    /\ UNCHANGED legacyVars


(***************************************************************************)
(* State.cleanupAllTimers, init(), shutdown(), reconfigure() and the       *)
(* animations                                                              *)
(***************************************************************************)
RECURSIVE FreshIds(_, _)
FreshIds(used, n) ==
    IF n = 0 THEN <<>>
    ELSE LET i == FreshId(used) IN <<i>> \o FreshIds(used \cup {i}, n - 1)

\* a cleanup that gives up at a handle engine.stopTimer does not know: with a tracked timer
\* that already fired, nothing is stopped
cleanupAllTimersThrowing(ts) ==
    IF \A i \in 1..Len(stTimers) : \E t \in ts : t.id = stTimers[i]
       THEN {t \in ts : t.id \notin Range(stTimers)
                                \cup {zoomFeedback.timer, superknobFeedback.timer}}
       ELSE ts

\* the pending timers that State.cleanupAllTimers leaves: it stops the tracked timers and
\* the timer of each feedback session
cleanupAllTimers(ts) ==
    {t \in ts : t.id \notin Range(stTimers)
                             \cup {zoomFeedback.timer, superknobFeedback.timer}}

\* a cleanup that also marks the session inactive, and clears nothing else
TimerClearedAndEnded(fb) == [fb EXCEPT !.timer = 0, !.active = FALSE]

\* a feedback session after State.cleanupAllTimers
TimerCleared(fb) == [fb EXCEPT !.timer = 0]

\* MPD218.init(): cleanup, registerHandlers, connectCallbacks, runStartupAnimation, finalizeInit
InitBody(f) ==
    LET ts == cleanupAllTimers(timers)
        startTimer == FreshId({t.id : t \in ts})
    IN /\ timers' = ts \cup {Timer(startTimer, "startAnim", 0, 0)}
       /\ stTimers' = <<startTimer>>
       /\ zoomFeedback' = TimerCleared(zoomFeedback)
       /\ superknobFeedback' = TimerCleared(superknobFeedback)
       /\ registered' = TRUE
       /\ initialized' = TRUE
       /\ padLED' = Device(padLED, allPadsOff)
       /\ fx' = [f EXCEPT !.midi = allPadsOff, !.began = <<"startAnim">>,
                          !.stopped = SortedSeq({t.id : t \in timers \ ts})]
       /\ UNCHANGED <<currentBank, nrpnParams, beatjumpRate, eng, now, config,
                      EncoderMappings>>
       /\ UNCHANGED legacyVars

\* Mixxx loads the script and calls init()
init ==
    /\ ~registered
    /\ InitBody(Fx("init", 0, 0))

\* MPD218.shutdown() followed by the timers in `more` that the caller begins; each of them
\* carries the handle of the shutdown animation's timer begun, in the same call, before it
ShutdownBody(f, more) ==
    LET ts == cleanupAllTimers(timers)
        ids == FreshIds({t.id : t \in ts}, 1 + Len(more))
    IN /\ timers' = ts \cup {Timer(ids[1], "shutdownAnim", 0, 0)}
                       \cup {Timer(ids[1 + i], more[i], ids[1], 0) : i \in 1..Len(more)}
       /\ stTimers' = <<>>
       /\ zoomFeedback' = TimerCleared(zoomFeedback)
       /\ superknobFeedback' = TimerCleared(superknobFeedback)
       /\ initialized' = FALSE
       /\ fx' = [f EXCEPT !.began = <<"shutdownAnim">> \o more,
                          !.stopped = SortedSeq({t.id : t \in timers \ ts})]
       /\ UNCHANGED <<registered, currentBank, nrpnParams, beatjumpRate, eng, now, padLED,
                      config, EncoderMappings>>
       /\ UNCHANGED legacyVars

PendingOf(kind) == {t \in timers : t.kind = kind}

\* the layout and the bank mappings the script generates when it is loaded with
\* MPD218.Config.layout edited to the given rotation, direction, index order and deck order
loadLayout(degrees, direction, order, decks) ==
    LET cfg == [LayoutAsShipped EXCEPT !.rotation = degrees,
                                       !.rotationDirection = direction,
                                       !.indexOrder = order, !.deckOrder = decks]
    IN /\ fx' = [Fx("loadLayout", 0, 0) EXCEPT
                    !.before = <<degrees, direction, order, decks>>,
                    !.show = generateAllBanks(generateLayout(cfg))]
       /\ UNCHANGED scriptVars
       /\ UNCHANGED legacyVars

\* MPD218.reconfigure(): with the configuration unchanged the regenerated layout is the same
reconfigure ==
    /\ registered
    /\ IF initialized
          THEN ShutdownBody(Fx("reconfigure", 0, 0), <<"reinit">>)
          ELSE /\ fx' = Fx("reconfigure", 0, 0)
               /\ UNCHANGED scriptVars
               /\ UNCHANGED legacyVars

\* the timer of reconfigure() fires and calls init(); the start timer init() begins carries
\* the handle of the shutdown animation's timer that reconfigure() began
reinitTimer(t) ==
    /\ t \in timers
    /\ t.kind = "reinit"
    /\ LET ts == cleanupAllTimers(timers \ {t})
           startTimer == FreshId({u.id : u \in ts})
       IN /\ timers' = ts \cup {Timer(startTimer, "startAnim", t.a, 0)}
          /\ stTimers' = <<startTimer>>
          /\ fx' = [Fx("reinitTimer", t.id, 0) EXCEPT
                       !.midi = allPadsOff, !.began = <<"startAnim">>,
                       !.stopped = SortedSeq({u.id : u \in (timers \ {t}) \ ts})]
    /\ zoomFeedback' = TimerCleared(zoomFeedback)
    /\ superknobFeedback' = TimerCleared(superknobFeedback)
    /\ registered' = TRUE
    /\ initialized' = TRUE
    /\ padLED' = Device(padLED, allPadsOff)
    /\ UNCHANGED <<currentBank, nrpnParams, beatjumpRate, eng, now, config, EncoderMappings>>
    /\ UNCHANGED legacyVars

\* the diagonals of runDiagonalWave, top-left to bottom-right
Diagonals ==
    LET rows == Len(GRID)
        cols == Len(GRID[1])
    IN [d \in 1..(rows + cols - 1) |->
          LET rs == {r \in 1..rows : d - r + 1 >= 1 /\ d - r + 1 <= cols}
              sr == SortedSeq(rs)
          IN [i \in 1..Len(sr) |-> GRID[sr[i]][d - sr[i] + 1]]]

\* prepareChannelPads and the channelDisplayPads of runDiagonalWave
channelDisplayPads ==
    UNION {LET pads == CHANNELS[n]
               orderedPads == IF Len(pads) >= 2 /\ pads[1] > pads[Len(pads)]
                                 THEN [i \in 1..Len(pads) |-> pads[Len(pads) + 1 - i]]
                                 ELSE pads
           IN IF Len(pads) >= n THEN {orderedPads[i] : i \in 1..n} ELSE {}
           : n \in Decks}

\* the delay runDiagonalWave gives the timer of each step (1..7 on, 8..14 off, 15, 16)
AnimDelay(step) ==
    LET stepDuration == 83
        n == Len(Diagonals)
        waveOffStart == n * stepDuration - stepDuration
        last == waveOffStart + n * stepDuration
    IN IF step <= n THEN (step - 1) * stepDuration
       ELSE IF step <= 2 * n THEN waveOffStart + (step - n - 1) * stepDuration
       ELSE IF step = 2 * n + 1 THEN last + 1000
       ELSE last + 1000 + 250

\* the LED messages of each step of the startup animation
AnimMidi(step, bank, e) ==
    LET n == Len(Diagonals) IN
    IF step <= n THEN setPadLEDs(Diagonals[step], TRUE)
    ELSE IF step <= 2 * n
        THEN setPadLEDs(SelectSeq(Diagonals[step - n], LAMBDA p : p \notin channelDisplayPads),
                        FALSE)
    ELSE IF step = 2 * n + 1 THEN allPadsOff
    ELSE syncFeatureLEDs(bank, e)

\* the start timer of runStartupAnimation fires: prepareChannelPads, runDiagonalWave
startAnimTimer(t) ==
    /\ t \in timers
    /\ t.kind = "startAnim"
    /\ LET steps == 2 * Len(Diagonals) + 2
           ids == FreshIds(UsedIds, steps)
       IN /\ timers' = (timers \ {t}) \cup
                          {Timer(ids[k], "anim", AnimDelay(k), k) : k \in 1..steps}
          /\ stTimers' = stTimers \o ids
          /\ fx' = [Fx("startAnimTimer", t.id, 0) EXCEPT
                       !.began = [k \in 1..steps |-> "anim"]]
    /\ UNCHANGED <<initialized, registered, currentBank, nrpnParams, zoomFeedback,
                   superknobFeedback, beatjumpRate, eng, now, padLED, config,
                   EncoderMappings>>
    /\ UNCHANGED legacyVars

\* a timer of runDiagonalWave fires (the earliest of the batch)
animTimer(t) ==
    /\ t \in timers
    /\ t.kind = "anim"
    /\ \A u \in timers : u.kind = "anim" => t.a <= u.a
    /\ LET msgs == AnimMidi(t.b, currentBank, eng)
       IN /\ padLED' = Device(padLED, msgs)
          /\ fx' = [Fx("animTimer", t.b, 0) EXCEPT !.midi = msgs]
    /\ timers' = timers \ {t}
    /\ UNCHANGED <<initialized, registered, currentBank, stTimers, nrpnParams, zoomFeedback,
                   superknobFeedback, beatjumpRate, eng, now, config, EncoderMappings>>
    /\ UNCHANGED legacyVars

\* the LED messages of one firing of the repeating timer of runShutdownAnimation
ShutdownAnimMidi(currentPad) ==
    (IF currentPad > 0 THEN setPadLED(NOTES[currentPad], FALSE) ELSE <<>>)
        \o (IF currentPad < Len(NOTES)
               THEN setPadLED(NOTES[currentPad + 1], TRUE)
               ELSE setPadLED(NOTES[currentPad], FALSE) \o allPadsOff)

\* the time after shutdown() at which the repeating timer fires with currentPad = k
SweepTime(k) == (k + 1) * SHUTDOWN_ANIMATION_INTERVAL

\* the timers begun with the shutdown animation t, or after it by the re-init, that fall due
\* before the firing of t with currentPad = t.a
DueBefore(t) ==
    {u \in timers :
        /\ u.a = t.id
        /\ \/ u.kind = "reinit" /\ RECONFIGURE_DELAY < SweepTime(t.a)
           \/ u.kind = "startAnim" /\ RECONFIGURE_DELAY + startPause < SweepTime(t.a)}

\* the repeating timer of runShutdownAnimation fires; t.a is currentPad. The timers fire in
\* the order they fall due: the re-init of reconfigure() 100 ms after the shutdown, and the
\* start timer of the startup animation 100 ms after that
shutdownAnimTimer(t) ==
    /\ t \in timers
    /\ t.kind = "shutdownAnim"
    /\ DueBefore(t) = {}
    /\ LET msgs == ShutdownAnimMidi(t.a)
       IN /\ padLED' = Device(padLED, msgs)
          /\ fx' = [Fx("shutdownAnimTimer", t.a, 0) EXCEPT
                       !.midi = msgs,
                       !.stopped = IF t.a < Len(NOTES) THEN <<>> ELSE <<t.id>>]
    /\ timers' = IF t.a < Len(NOTES)
                    THEN (timers \ {t}) \cup {[t EXCEPT !.a = t.a + 1]}
                    ELSE timers \ {t}
    /\ UNCHANGED <<initialized, registered, currentBank, stTimers, nrpnParams, zoomFeedback,
                   superknobFeedback, beatjumpRate, eng, now, config, EncoderMappings>>
    /\ UNCHANGED legacyVars


\* Mixxx unloads the script and calls shutdown()
shutdown ==
    /\ initialized
    /\ ShutdownBody(Fx("shutdown", 0, 0), <<>>)

(***************************************************************************)
(* Bounds                                                                  *)
(***************************************************************************)
\* pad presses whose deferred LED update is still pending
MaxPadTimers == 1

\* shutdown animations still running
MaxShutdownAnimations == 1

\* the longest run of beat-jump ticks followed
MaxTicks == 6

\* the longest run of beat-jump ticks followed where every gap and host value is tried
MaxRateTicks == 4

(***************************************************************************)
(* SpecNRPN: the NRPN byte stream, as the current script and as the legacy *)
(* script handle it                                                        *)
(***************************************************************************)
\* the data bytes of CC99 / CC98
NrpnBytes == {0, 127}

\* the channel that selects parameters: the beatgrid encoder of the current script
NrpnSelectChannels == {13}

\* the channels turned: beat jump, the two unmapped channels, beatgrid
NrpnMotionChannels == {7, 11, 12, 13}

\* the channel of the legacy script that sees the same bytes
LegacyChannels == {1}

MotionValues == {127}

NextNRPN ==
    \/ init
    \/ \E ch \in NrpnSelectChannels, b \in NrpnBytes : nrpnMSB(ch, b)
    \/ \E ch \in NrpnSelectChannels, b \in NrpnBytes : nrpnLSB(ch, b)
    \/ \E ch \in NrpnMotionChannels, v \in MotionValues :
          Len(fx.ticks) < MaxRateTicks /\ nrpnIncrement(ch, v)
    \/ \E ch \in NrpnMotionChannels, v \in MotionValues :
          Len(fx.ticks) < MaxRateTicks /\ nrpnDecrement(ch, v)
    \/ \E v \in {<<1, 2>>} : testSuperknobFeedback(v)
    \/ \E ch \in LegacyChannels, b \in NrpnBytes : handleNRPNMSB(ch, b)
    \/ \E ch \in LegacyChannels, b \in NrpnBytes : handleNRPNLSB(ch, b)
    \/ \E ch \in LegacyChannels, v \in MotionValues : handleNRPNIncrement(ch, v)
    \/ \E ch \in LegacyChannels, v \in MotionValues : handleNRPNDecrement(ch, v)

SpecNRPN == Init /\ [][NextNRPN]_vars


(***************************************************************************)
(* SpecShow: the feedback sessions: show() from the encoders and from the  *)
(* console, expiry, and re-initialisation through reconfigure()            *)
(***************************************************************************)
\* the channels turned: the fast zoom encoder (deck 1) and the superknob encoder of deck 3
ShowMotionChannels == {1, 4}

\* the value testSuperknobFeedback is called with (on deck 1)
ShowSuperknobValues == {<<1, 4>>}

NextShow ==
    \/ init
    \/ /\ Cardinality(PendingOf("shutdownAnim")) < MaxShutdownAnimations
       /\ reconfigure
    \/ \E t \in timers : reinitTimer(t)
    \/ \E ch \in ShowMotionChannels, v \in MotionValues : nrpnIncrement(ch, v)
    \/ \E ch \in ShowMotionChannels, v \in MotionValues : nrpnDecrement(ch, v)
    \/ \E v \in ShowSuperknobValues : testSuperknobFeedback(v)
    \/ \E t \in timers : endZoomFeedback(t)
    \/ \E t \in timers : endSuperknobFeedback(t)

SpecShow == Init /\ [][NextShow]_vars

(***************************************************************************)
(* SpecZoom: the two zoom encoders of deck 1 with the zoom feedback        *)
(* switched on and off and the direction reversed or not                   *)
(***************************************************************************)
\* the fast and the slow zoom encoder
ZoomChannels == {1, 2}

ZoomMagnitudes == {1, 64, 127}

ZoomDecks == {EncoderMappings[ch].deck : ch \in ZoomChannels}

\* the zoom the user sets in the host
HostZoomLevels == {<<1, 1>>, <<3, 1>>, <<100, 1>>}

ZoomFeedbackSettings == {<<>>, <<TRUE>>, <<FALSE>>}

\* the encoder is turned at most twice in a row from a zoom the user set
ZoomTurnAllowed(ch) ==
    \/ eng.zoom[EncoderMappings[ch].deck] \in HostZoomLevels
    \/ fx.before # <<>> /\ fx.before[1] \in HostZoomLevels

NextZoom ==
    \/ init
    \/ \E e \in ZoomFeedbackSettings, r \in ZoomFeedbackSettings :
          setZoomFeedback(e, <<>>, r)
    \/ \E d \in ZoomDecks, z \in HostZoomLevels : hostZoom(d, z)
    \/ \E ch \in ZoomChannels, v \in ZoomMagnitudes :
          ZoomTurnAllowed(ch) /\ nrpnIncrement(ch, v)
    \/ \E ch \in ZoomChannels, v \in ZoomMagnitudes :
          ZoomTurnAllowed(ch) /\ nrpnDecrement(ch, v)
    \/ \E t \in timers : endZoomFeedback(t)

SpecZoom == Init /\ [][NextZoom]_vars

(***************************************************************************)
(* SpecZoomDisabled: the fast zoom encoder and a pad, with the zoom        *)
(* feedback switched off and on                                            *)
(***************************************************************************)
DisabledZoomChannels == {1}

DisabledZoomMagnitudes == {1, 127}

DisabledZoomLevels == {<<3, 1>>, <<100, 1>>}

EnabledSettings == {<<TRUE>>, <<FALSE>>}

\* the pad pressed: the bottom-left pad
DisabledZoomPads == {GRID[4][1]}

DisabledZoomVelocities == {127}

NextZoomDisabled ==
    \/ init
    \/ \E e \in EnabledSettings : setZoomFeedback(e, <<>>, <<>>)
    \/ \E ch \in DisabledZoomChannels, z \in DisabledZoomLevels :
          hostZoom(EncoderMappings[ch].deck, z)
    \/ \E ch \in DisabledZoomChannels, v \in DisabledZoomMagnitudes :
          ZoomTurnAllowed(ch) /\ nrpnIncrement(ch, v)
    \/ \E ch \in DisabledZoomChannels, v \in DisabledZoomMagnitudes :
          ZoomTurnAllowed(ch) /\ nrpnDecrement(ch, v)
    \/ \E n \in DisabledZoomPads, v \in DisabledZoomVelocities :
          /\ Cardinality(PendingOf("padLed")) < MaxPadTimers
          /\ padPress(n, v)
    \/ \E t \in timers : padLedTimer(t)
    \/ \E t \in timers : endZoomFeedback(t)

SpecZoomDisabled == Init /\ [][NextZoomDisabled]_vars

(***************************************************************************)
(* SpecSuperknob: the superknob encoder of one deck                        *)
(***************************************************************************)
SuperknobChannels == {4}

SuperknobMagnitudes == {1, 50, 127}

SuperknobDecks == {EncoderMappings[ch].deck : ch \in SuperknobChannels}

\* the filter position the user sets in the host
HostSuper1Values == {<<0, 1>>, <<1, 2>>, <<1, 1>>}

NextSuperknob ==
    \/ init
    \/ \E d \in SuperknobDecks, v \in HostSuper1Values : hostSuper1(d, v)
    \/ \E ch \in SuperknobChannels, v \in SuperknobMagnitudes :
          nrpnIncrement(ch, v)
    \/ \E ch \in SuperknobChannels, v \in SuperknobMagnitudes :
          nrpnDecrement(ch, v)
    \/ \E t \in timers : endSuperknobFeedback(t)

SpecSuperknob == Init /\ [][NextSuperknob]_vars

(***************************************************************************)
(* SpecNudge: the beatgrid encoders of the current and of the legacy       *)
(* script and the jogwheel handler, with a feedback session of each kind   *)
(* and the speeds changed from the console                                 *)
(***************************************************************************)
BeatgridChannels == {13, 14}

NudgeMagnitudes == {1, 64, 127}

\* the speeds setEncoderSpeeds is called with: undefined, valid ones, and the two nearest
\* invalid ones
NudgeSpeeds == {<<>>, << <<1, 2>> >>, << <<3, 1>> >>, << <<0, 1>> >>,
                << <<MAX_ENCODER_SPEED, 1>> >>}

JogwheelSpeeds == {<<>>, << <<3, 1>> >>}

JogwheelDecks == {1}

\* the legacy beatgrid channel and the bytes that select and reset its parameter
LegacyBeatgridChannels == {2}

LegacySelectBytes == {0, 127}

NudgeZoomLevels == {<<8, 1>>}

NudgeSuperknobValues == {<<1, 4>>}

NextNudge ==
    \/ init
    \/ \E b \in NudgeSpeeds, j \in JogwheelSpeeds : setEncoderSpeeds(<<>>, <<>>, b, j, <<>>)
    \/ \E ch \in BeatgridChannels, v \in NudgeMagnitudes : nrpnIncrement(ch, v)
    \/ \E ch \in BeatgridChannels, v \in NudgeMagnitudes : nrpnDecrement(ch, v)
    \/ \E d \in JogwheelDecks, i \in BOOLEAN, v \in NudgeMagnitudes : jogwheelMotion(d, i, v)
    \/ \E ch \in LegacyBeatgridChannels, b \in LegacySelectBytes : handleNRPNMSB(ch, b)
    \/ \E ch \in LegacyBeatgridChannels, b \in LegacySelectBytes : handleNRPNLSB(ch, b)
    \/ \E ch \in LegacyBeatgridChannels, v \in NudgeMagnitudes : handleNRPNIncrement(ch, v)
    \/ \E ch \in LegacyBeatgridChannels, v \in NudgeMagnitudes : handleNRPNDecrement(ch, v)
    \/ \E z \in NudgeZoomLevels : testZoomFeedback(z)
    \/ \E v \in NudgeSuperknobValues : testSuperknobFeedback(v)
    \/ \E t \in timers : endZoomFeedback(t)
    \/ \E t \in timers : endSuperknobFeedback(t)

SpecNudge == Init /\ [][NextNudge]_vars

(***************************************************************************)
(* The visualizations shown from the console: the levels of testZoomLevels *)
(* and the values of testSuperknobLevels and testSmoothSuperknob, with     *)
(* values between them and outside the range                               *)
(***************************************************************************)
(***************************************************************************)
(* SpecCleanup: init(), shutdown() and reconfigure() while the timers of   *)
(* the startup animation fire one by one and the sessions are shown        *)
(***************************************************************************)
CleanupZoomLevels == {<<3, 1>>}

CleanupSuperknobValues == {<<1, 4>>}

NextCleanup ==
    \/ init
    \/ /\ Cardinality(PendingOf("shutdownAnim")) < MaxShutdownAnimations
       /\ shutdown
    \/ /\ Cardinality(PendingOf("shutdownAnim")) < MaxShutdownAnimations
       /\ reconfigure
    \/ \E t \in timers : reinitTimer(t)
    \/ \E t \in timers : startAnimTimer(t)
    \/ \E t \in timers : animTimer(t)
    \/ \E z \in CleanupZoomLevels : testZoomFeedback(z)
    \/ \E v \in CleanupSuperknobValues : testSuperknobFeedback(v)

SpecCleanup == Init /\ [][NextCleanup]_vars

(***************************************************************************)
(* SpecLayouts: the layout and the banks generated under every supported   *)
(* layout configuration                                                    *)
(***************************************************************************)
Rotations == {0, 90, 180, 270}

RotationDirections == {"clockwise", "counterclockwise"}

IndexOrders == {"ascending", "descending"}

DeckOrders == {order \in [Decks -> Decks] : Range(order) = Decks}

NextLayouts ==
    \/ init
    \/ \E degrees \in Rotations, direction \in RotationDirections,
          order \in IndexOrders, decks \in DeckOrders :
          loadLayout(degrees, direction, order, decks)

SpecLayouts == Init /\ [][NextLayouts]_vars

(***************************************************************************)
(* SpecEncoderSpeeds: setEncoderSpeeds() with speeds that are undefined,   *)
(* valid, and invalid on either side of the range, and a beatgrid encoder  *)
(***************************************************************************)
ZoomFastArgs == {<<>>, << <<2, 1>> >>, << <<0, 1>> >>}

ZoomSlowArgs == {<<>>, << <<1, 2>> >>, << <<MAX_ENCODER_SPEED, 1>> >>}

BeatgridArgs == {<<>>, << <<3, 1>> >>, << <<-1, 1>> >>}

JogwheelArgs == {<<>>, << <<MAX_ENCODER_SPEED - 1, 1>> >>}

ScrubArgs == {<<>>, << <<1, 1000>> >>, << <<MAX_ENCODER_SPEED + 1, 1>> >>}

SpeedChannels == {13}

SpeedMagnitudes == {1}

NextEncoderSpeeds ==
    \/ init
    \/ \E zf \in ZoomFastArgs, zs \in ZoomSlowArgs, b \in BeatgridArgs,
          j \in JogwheelArgs, sc \in ScrubArgs : setEncoderSpeeds(zf, zs, b, j, sc)
    \/ \E ch \in SpeedChannels, v \in SpeedMagnitudes : nrpnIncrement(ch, v)

SpecEncoderSpeeds == Init /\ [][NextEncoderSpeeds]_vars

(***************************************************************************)
(* SpecChannels: parameter selects on two channels of each script, one of  *)
(* them the pad channel, with encoder motions and pad presses in between   *)
(***************************************************************************)
\* the channels that select parameters: the pad channel (a beat-jump encoder) and a beatgrid
\* encoder
SelectChannels == {PAD_CHANNEL + 1, 13}

\* the channel turned: a beatgrid encoder
TurnedChannels == {13}

\* the MSB bytes the channels receive; the LSB bytes are LegacySelectBytes
SelectMSBBytes == {127}

LegacySelectChannels == {2}

\* the pad pressed and released: the bottom-left pad
ChannelPads == {GRID[4][1]}

ChannelVelocities == {127}

\* the legacy channel turned
LegacyTurnedChannels == {2}

NextChannels ==
    \/ init
    \/ \E ch \in SelectChannels, b \in SelectMSBBytes : nrpnMSB(ch, b)
    \/ \E ch \in SelectChannels, b \in LegacySelectBytes : nrpnLSB(ch, b)
    \/ \E ch \in TurnedChannels, v \in MotionValues : nrpnIncrement(ch, v)
    \/ \E ch \in TurnedChannels, v \in MotionValues : nrpnDecrement(ch, v)
    \/ \E n \in ChannelPads, v \in ChannelVelocities :
          /\ Cardinality(PendingOf("padLed")) < MaxPadTimers
          /\ padPress(n, v)
    \/ \E t \in timers : padLedTimer(t)
    \/ \E ch \in LegacySelectChannels, b \in SelectMSBBytes : handleNRPNMSB(ch, b)
    \/ \E ch \in LegacySelectChannels, b \in LegacySelectBytes : handleNRPNLSB(ch, b)
    \/ \E ch \in LegacyTurnedChannels, v \in MotionValues : handleNRPNIncrement(ch, v)
    \/ \E ch \in LegacyTurnedChannels, v \in MotionValues : handleNRPNDecrement(ch, v)

SpecChannels == Init /\ [][NextChannels]_vars

ZoomTestLevels ==
    {<<1, 10>>, <<1, 1>>, <<2, 1>>, <<5, 1>>, <<8, 1>>, <<32, 1>>, <<64, 1>>, <<100, 1>>,
     <<150, 1>>}

SuperknobTestValues ==
    {<<-1, 5>>, <<0, 1>>, <<1, 4>>, <<2, 5>>, <<1, 2>>, <<13, 25>>, <<3, 5>>, <<3, 4>>,
     <<1, 1>>, <<6, 5>>}

\* the zoom visualization alone
NextZoomLevels ==
    \/ init
    \/ \E z \in ZoomTestLevels : testZoomFeedback(z)
    \/ \E t \in timers : endZoomFeedback(t)

SpecZoomLevels == Init /\ [][NextZoomLevels]_vars

\* the superknob visualization alone
NextSuperknobLevels ==
    \/ init
    \/ \E v \in SuperknobTestValues : testSuperknobFeedback(v)
    \/ \E t \in timers : endSuperknobFeedback(t)

SpecSuperknobLevels == Init /\ [][NextSuperknobLevels]_vars

\* the levels and values that share pads and differ in both directions
BothZoomLevels == {<<8, 1>>, <<64, 1>>}

BothSuperknobValues == {<<0, 1>>, <<2, 5>>, <<1, 2>>, <<3, 5>>}

\* both visualizations
NextLevels ==
    \/ init
    \/ \E z \in BothZoomLevels : testZoomFeedback(z)
    \/ \E v \in BothSuperknobValues : testSuperknobFeedback(v)
    \/ \E t \in timers : endZoomFeedback(t)
    \/ \E t \in timers : endSuperknobFeedback(t)

SpecLevels == Init /\ [][NextLevels]_vars

(***************************************************************************)
(* SpecPads: the pad router with the steady-state indicators, a session of *)
(* each kind and its expiry                                                *)
(***************************************************************************)
\* the pad pressed: bpmlock of deck 3 in bank 1, hotcue 13 of deck 1 in bank 2
PressedPads == {48}

PadVelocities == {0, 127}

Banks == {1, 2}

\* the host controls that change under the script: the two the pressed pad shows
ChangedFeatures == {<<BankMappings[1][48].deck, BankMappings[1][48].type>>}

ChangedHotcues == {<<BankMappings[2][48].deck, BankMappings[2][48].number>>}

HostValues == {0, 1}

PadsZoomLevels == {<<3, 1>>}

PadsSuperknobValues == {<<1, 4>>}

NextPads ==
    \/ init
    \/ \E n \in PressedPads, v \in PadVelocities :
          /\ Cardinality(PendingOf("padLed")) < MaxPadTimers
          /\ padPress(n, v)
    \/ \E t \in timers : padLedTimer(t)
    \/ \E c \in ChangedFeatures, v \in HostValues : featureChanged(v, c[1], c[2])
    \/ \E c \in ChangedHotcues, v \in HostValues : hotcueChanged(v, c[1], c[2])
    \/ \E b \in Banks : setBank(b)
    \/ \E z \in PadsZoomLevels : testZoomFeedback(z)
    \/ \E v \in PadsSuperknobValues : testSuperknobFeedback(v)
    \/ \E t \in timers : endZoomFeedback(t)
    \/ \E t \in timers : endSuperknobFeedback(t)

SpecPads == Init /\ [][NextPads]_vars

(***************************************************************************)
(* Spec: the life cycle of the script: init(), shutdown(), reconfigure()   *)
(* and the re-init it schedules, with a session of each kind               *)
(***************************************************************************)
Next ==
    \/ init
    \/ /\ Cardinality(PendingOf("shutdownAnim")) < MaxShutdownAnimations
       /\ shutdown
    \/ /\ Cardinality(PendingOf("shutdownAnim")) < MaxShutdownAnimations
       /\ reconfigure
    \/ \E t \in timers : reinitTimer(t)
    \/ \E ch \in ShowMotionChannels, v \in MotionValues : nrpnIncrement(ch, v)
    \/ \E z \in PadsZoomLevels : testZoomFeedback(z)
    \/ \E v \in PadsSuperknobValues : testSuperknobFeedback(v)
    \/ \E t \in timers : endZoomFeedback(t)
    \/ \E t \in timers : endSuperknobFeedback(t)

Spec == Init /\ [][Next]_vars

(***************************************************************************)
(* SpecAnimation: the startup and the shutdown animation                   *)
(***************************************************************************)
NextAnimation ==
    \/ init
    \/ /\ Cardinality(PendingOf("shutdownAnim")) < MaxShutdownAnimations
       /\ reconfigure
    \/ \E t \in timers : reinitTimer(t)
    \/ \E t \in timers : startAnimTimer(t)
    \/ \E t \in timers : animTimer(t)
    \/ \E t \in timers : shutdownAnimTimer(t)

SpecAnimation == Init /\ [][NextAnimation]_vars

(***************************************************************************)
(* SpecBeatJump: runs of beat-jump ticks on one deck, 10 ms or 200 ms (or  *)
(* no time at all) apart                                                   *)
(***************************************************************************)
\* the beat-jump encoder turned
BeatJumpChannels == {7}

\* the time that passes between two ticks, in ms
SteadyGaps == {10, 200}

\* a tick was handled at the present time
ClockAtLastTick == \E d \in Decks : beatjumpRate.lastTime[d] = now

NextBeatJump ==
    \/ init
    \/ \E dt \in SteadyGaps : ClockAtLastTick /\ clockAdvance(dt)
    \/ \E ch \in BeatJumpChannels, v \in MotionValues :
          Len(fx.ticks) < MaxTicks /\ nrpnIncrement(ch, v)

SpecBeatJump == Init /\ [][NextBeatJump]_vars

(***************************************************************************)
(* SpecBeatJumpRate: short runs of beat-jump ticks with gaps on both sides *)
(* of each threshold of the rate tracker                                   *)
(***************************************************************************)
RateGaps == {10, 49, 50, 99, 100, 150, 151}

NextBeatJumpRate ==
    \/ init
    \/ \E dt \in RateGaps : ClockAtLastTick /\ clockAdvance(dt)
    \/ \E ch \in BeatJumpChannels, v \in MotionValues :
          Len(fx.ticks) < MaxRateTicks /\ nrpnIncrement(ch, v)

SpecBeatJumpRate == Init /\ [][NextBeatJumpRate]_vars

(***************************************************************************)
(* SpecBeatJumpDecks: beat-jump ticks in both directions on two decks,     *)
(* interleaved, with gaps in every band of the rate tracker                *)
(***************************************************************************)
TwoDeckChannels == {7, 8}

TwoDeckGaps == {10, 60, 120, 200}

\* the deck whose track is ejected and loaded again
EjectDecks == {EncoderMappings[7].deck}

\* duration in seconds: no track, a track of 2 s
EjectDurations == {<<0, 1>>, <<2, 1>>}

NextBeatJumpDecks ==
    \/ init
    \/ \E d \in EjectDecks, dur \in EjectDurations :
          hostTrack(d, HostAtLoad.pos[d], dur, HostAtLoad.bpm[d])
    \/ \E dt \in TwoDeckGaps : ClockAtLastTick /\ clockAdvance(dt)
    \/ \E ch \in TwoDeckChannels, v \in MotionValues :
          Len(fx.ticks) < MaxRateTicks /\ nrpnIncrement(ch, v)
    \/ \E ch \in TwoDeckChannels, v \in MotionValues :
          Len(fx.ticks) < MaxRateTicks /\ nrpnDecrement(ch, v)

SpecBeatJumpDecks == Init /\ [][NextBeatJumpDecks]_vars

(***************************************************************************)
(* SpecBeatJumpBounds: beat-jump ticks in both directions against the      *)
(* track values the host reports                                           *)
(***************************************************************************)
TrackDecks == {EncoderMappings[ch].deck : ch \in BeatJumpChannels}

\* playposition: start, middle, end of the track
TrackPositions == {<<0, 1>>, <<1, 2>>, <<1, 1>>}

\* duration in seconds: no track, a track of 2 s
TrackDurations == {<<0, 1>>, <<2, 1>>}

\* bpm: not known, 120
TrackBpms == {<<0, 1>>, <<120, 1>>}

NextBeatJumpBounds ==
    \/ init
    \/ \E d \in TrackDecks, pos \in TrackPositions, dur \in TrackDurations,
          bpm \in TrackBpms : hostTrack(d, pos, dur, bpm)
    \/ \E ch \in BeatJumpChannels, v \in MotionValues :
          Len(fx.ticks) < MaxRateTicks /\ nrpnIncrement(ch, v)
    \/ \E ch \in BeatJumpChannels, v \in MotionValues :
          Len(fx.ticks) < MaxRateTicks /\ nrpnDecrement(ch, v)

SpecBeatJumpBounds == Init /\ [][NextBeatJumpBounds]_vars

(***************************************************************************)
(* NRPN properties, checked under SpecNRPN                                 *)
(***************************************************************************)
MotionOps == {"nrpnIncrement", "nrpnDecrement"}

LegacyMotionOps == {"handleNRPNIncrement", "handleNRPNDecrement"}

\* the parameter number the two stored bytes stand for; -1 is None
ParameterOf(msb, lsb) == IF msb = 127 /\ lsb = 127 THEN -1 ELSE msb * 128 + lsb

\* legacy channel state before any MSB or LSB message
LegacyUntouched(channelState) ==
    channelState.currentParameter = -1 /\ channelState.msb = 0 /\ channelState.lsb = 0

\* C1: on every channel whose two bytes have been received, the stored parameter is
\* (msb << 7) | lsb of the two most recent bytes, and None when they are (127, 127);
\* this holds after each single MSB or LSB message, in the current and the legacy script
C1_ParameterTracksBytes ==
    /\ \A ch \in DOMAIN nrpnParams :
          (nrpnParams[ch].msb # -1 /\ nrpnParams[ch].lsb # -1)
              => nrpnParams[ch].param = ParameterOf(nrpnParams[ch].msb, nrpnParams[ch].lsb)
    /\ \A ch \in DOMAIN nrpnState :
          \/ LegacyUntouched(nrpnState[ch])
          \/ nrpnState[ch].currentParameter = ParameterOf(nrpnState[ch].msb, nrpnState[ch].lsb)

C3_UnmappedMotionIsNoOp ==
    [][(fx'.op \in MotionOps /\ fx'.ch \in {11, 12})
          => /\ fx'.dispatch = "none"
             /\ fx'.writes = <<>>
             /\ fx'.midi = <<>>
             /\ fx'.began = <<>>
             /\ UNCHANGED <<nrpnParams, zoomFeedback, superknobFeedback, beatjumpRate,
                            eng, padLED, timers>>]_vars

\* C3 witness: a decrement on channel 12 was handled while a parameter was stored, a
\* superknob session was active and a beat-jump multiplier had built up
C3_Witness ==
    /\ fx.op = "nrpnDecrement"
    /\ fx.ch = 12
    /\ fx.writes = <<>>
    /\ nrpnParams[13].present
    /\ superknobFeedback.active
    /\ beatjumpRate.multiplier[EncoderMappings[7].deck] >= 2


(***************************************************************************)
(* Feedback session properties, checked under SpecShow                     *)
(***************************************************************************)
\* the session of the kind a show() call or an expiry is about
SessionOf(kind) == IF kind = "zoom" THEN zoomFeedback ELSE superknobFeedback

IsOn(m) == m[1] = NOTE_ON + PAD_CHANNEL /\ m[3] > 0

IsOff(m) == m[1] = NOTE_OFF + PAD_CHANNEL

\* C4: whenever a session is active its currentPadStates is exactly the target pad set of
\* the last level or value applied by show(), and right after a show() call it is the target
\* set of the value that call was given, on the deck it was given
C4_LitPadsEqualTarget ==
    /\ zoomFeedback.active
          => zoomFeedback.currentPadStates = ZoomTarget(zoomFeedback.lastLevel)
    /\ superknobFeedback.active
          => superknobFeedback.currentPadStates = SuperknobTarget(superknobFeedback.lastValue)
    /\ \A s \in Range(fx.show) :
          /\ SessionOf(s.kind).active
          /\ SessionOf(s.kind).deck = s.deck
          /\ SessionOf(s.kind).currentPadStates =
                IF s.kind = "zoom" THEN ZoomTarget(ZoomSteps(s.value))
                                   ELSE SuperknobTarget(s.value)

\* C4 witness: show() moved an active superknob session to another deck and another value,
\* turning some pads off and keeping others
C4_Witness ==
    \E s \in Range(fx.show) :
        /\ s.kind = "superknob"
        /\ s.before.active
        /\ s.before.deck # s.deck
        /\ s.before.lastValue # s.value
        /\ superknobFeedback.currentPadStates # {}
        /\ superknobFeedback.currentPadStates # s.before.currentPadStates
        /\ s.before.currentPadStates \ superknobFeedback.currentPadStates # {}

\* C5: a show() call on a session that is already active sends no "on" message for a pad
\* the session already holds lit and no "off" message for a pad it does not hold lit
C5_NoRedundantLedMessage ==
    \A s \in Range(fx.show) :
        s.before.active
            => \A i \in 1..Len(fx.midi) :
                  /\ IsOn(fx.midi[i]) => fx.midi[i][2] \notin s.before.currentPadStates
                  /\ IsOff(fx.midi[i]) => fx.midi[i][2] \in s.before.currentPadStates

\* C6: a show() call on a session that is active for the same deck with the same step
\* (zoom) or the same value (superknob) sends no LED message and changes no field of the
\* session but the timer: it stops the timer the session holds and begins a new one
C6_SameValueOnlyRearms ==
    \A s \in Range(fx.show) :
        (/\ s.before.active
         /\ s.before.deck = s.deck
         /\ IF s.kind = "zoom" THEN s.before.lastLevel = ZoomSteps(s.value)
                               ELSE s.before.lastValue = s.value)
            => /\ fx.midi = <<>>
               /\ SessionOf(s.kind) = [s.before EXCEPT !.timer = SessionOf(s.kind).timer]
               /\ SessionOf(s.kind).timer # 0
               /\ fx.stopped = (IF s.before.timer # 0 THEN <<s.before.timer>> ELSE <<>>)
               /\ Len(fx.began) = 1

\* C6 witness: the zoom encoder was turned again at the same step while the zoom session
\* was active on that deck, and the session holds another timer than before
C6_Witness ==
    \E s \in Range(fx.show) :
        /\ s.kind = "zoom"
        /\ fx.op \in MotionOps
        /\ s.before.active
        /\ s.before.deck = s.deck
        /\ s.before.lastLevel = ZoomSteps(s.value)
        /\ s.before.timer # 0
        /\ zoomFeedback.timer # s.before.timer
        /\ fx.midi = <<>>

ExpiryKinds == {"zoomEnd", "superknobEnd"}

HandleOf(kind) == IF kind = "zoomEnd" THEN zoomFeedback.timer ELSE superknobFeedback.timer

\* C10: each session has at most one pending expiry timer, and it is the one the session
\* holds; show() stops the timer the session held, so that timer is no longer pending; and
\* the timer whose expiry ended a session was the one the session held
C10_SingleExpiryTimer ==
    /\ \A k \in ExpiryKinds :
          /\ Cardinality(PendingOf(k)) <= 1
          /\ \A t \in PendingOf(k) : t.id = HandleOf(k)
    /\ \A s \in Range(fx.show) :
          s.before.timer # 0
              => /\ fx.stopped = <<s.before.timer>>
                 /\ \A t \in timers : t.id # s.before.timer
    /\ \A b \in Range(fx.ended) : b.active /\ b.timer = fx.ch

\* C10 witness: show() replaced the timer of an active session whose value changed, and
\* exactly the new timer is pending
C10_Witness ==
    \E s \in Range(fx.show) :
        /\ s.kind = "superknob"
        /\ s.before.active
        /\ s.before.timer # 0
        /\ s.before.lastValue # s.value
        /\ PendingOf("superknobEnd") = {Timer(superknobFeedback.timer, "superknobEnd", 0, 0)}
        /\ superknobFeedback.timer # s.before.timer


(***************************************************************************)
(* Expiry and pad routing properties, checked under SpecPads               *)
(***************************************************************************)
EndOps == {"endZoomFeedback", "endSuperknobFeedback"}

\* C8: when the expiry timer of a session fires, the LED messages are an off message for
\* each pad the session held lit followed by the sync of every pad of the current bank from
\* the host's values, the session is back to its inactive record (active false; deck, last
\* value and timer cleared; no pad held), and each pad's LED equals its indicator
C8_ExpiryRestoresIndicators ==
    \A b \in Range(fx.ended) :
        LET offs == setPadLEDs(SortedSeq(b.currentPadStates), FALSE)
            sync == syncFeatureLEDs(currentBank, eng)
        IN /\ fx.op \in EndOps
           /\ Len(fx.midi) = Len(offs) + Len(sync)
           /\ \A p \in b.currentPadStates :
                 \E i \in 1..Len(offs) : IsOff(fx.midi[i]) /\ fx.midi[i][2] = p
           /\ SubSeq(fx.midi, Len(offs) + 1, Len(fx.midi)) = sync
           /\ \A p \in Pads : \E i \in 1..Len(sync) : sync[i][2] = p
           /\ IF fx.op = "endZoomFeedback"
                 THEN zoomFeedback = InactiveZoom
                 ELSE superknobFeedback = InactiveSuperknob
           /\ \A p \in Pads : padLED[p] = Indicator(BankMappings[currentBank][p], eng)

\* C8 witness: the zoom session expired while bpmlock of deck 3 was on in bank 1: pad 48,
\* which the session held lit, got its off message and was lit again by the sync
C8_Witness ==
    /\ fx.op = "endZoomFeedback"
    /\ currentBank = 1
    /\ \E b \in Range(fx.ended) : 48 \in b.currentPadStates
    /\ Indicator(BankMappings[1][48], eng)
    /\ padLED[48]
    /\ ~zoomFeedback.active

\* C9: a pad press while either session is active writes no host control, sends no LED
\* message and begins no timer; a press with velocity > 0 while neither is active goes to
\* the handling of the pad's mapping in the current bank: a hotcue pad writes the hotcue's
\* activate control, a feature pad writes the toggled feature of its deck, and the deferred
\* LED update is scheduled
C9_PadRouting ==
    fx.op = "padPress"
        => IF zoomFeedback.active \/ superknobFeedback.active
              THEN /\ fx.dispatch = "none"
                   /\ fx.writes = <<>>
                   /\ fx.midi = <<>>
                   /\ fx.began = <<>>
              ELSE fx.val > 0
                      => LET mapping == BankMappings[currentBank][fx.ch]
                         IN /\ fx.dispatch = mapping.type
                            /\ fx.began = <<"padLed">>
                            /\ fx.writes =
                                  IF mapping.type = "hotcue"
                                     THEN <<W("Channel", mapping.deck, "hotcue_activate",
                                              mapping.number, QInt(1))>>
                                     ELSE <<W("Channel", mapping.deck, mapping.type, 0,
                                              QInt(eng.feat[mapping.deck][mapping.type]))>>

\* C9 witness: pad 48 was pressed with velocity 127 while only the superknob session was
\* active, and nothing was written or scheduled
C9_Witness ==
    /\ fx.op = "padPress"
    /\ fx.ch = 48
    /\ fx.val = 127
    /\ superknobFeedback.active
    /\ ~zoomFeedback.active
    /\ fx.writes = <<>>
    /\ fx.began = <<>>
    /\ PendingOf("padLed") = {}

(***************************************************************************)
(* Life-cycle property, checked under Spec                                 *)
(***************************************************************************)
\* C7: a session that is active can expire: the expiry timer it holds is pending in the
\* timer service, also after shutdown() and after a re-init
C7_ActiveSessionHasPendingTimer ==
    /\ zoomFeedback.active
          => \E t \in PendingOf("zoomEnd") : t.id = zoomFeedback.timer
    /\ superknobFeedback.active
          => \E t \in PendingOf("superknobEnd") : t.id = superknobFeedback.timer


(***************************************************************************)
(* Independence of the two sessions, checked under SpecShow                *)
(***************************************************************************)
ShowOps == MotionOps \cup {"testZoomFeedback", "testSuperknobFeedback"}

\* the pads whose LED is lit on the device
LitPads == {p \in Pads : padLED[p]}

\* C11: a show() or an expiry of one kind changes no field of the other kind's session
\* (active, deck, last value, currentPadStates, timer)
C11_SessionsIndependent ==
    [][/\ \A s \in Range(fx'.show) :
             /\ fx'.op \in ShowOps
             /\ IF s.kind = "zoom" THEN superknobFeedback' = superknobFeedback
                                   ELSE zoomFeedback' = zoomFeedback
       /\ \A b \in Range(fx'.ended) :
             /\ fx'.op \in EndOps
             /\ IF fx'.op = "endZoomFeedback" THEN superknobFeedback' = superknobFeedback
                                              ELSE zoomFeedback' = zoomFeedback]_vars

\* C11 witness: the zoom session was first activated, with its full-grid clear, while the
\* superknob session was active and held pads, and the superknob session still holds them
C11_Witness ==
    \E s \in Range(fx.show) :
        /\ s.kind = "zoom"
        /\ ~s.before.active
        /\ zoomFeedback.active
        /\ superknobFeedback.active
        /\ superknobFeedback.currentPadStates # {}
        /\ superknobFeedback.timer # 0

\* C12: after a show() made while both sessions are active, the pads lit on the device are
\* exactly the target set of that show(), none left from the other kind
C12_LastWriterWins ==
    \A s \in Range(fx.show) :
        (s.before.active /\ zoomFeedback.active /\ superknobFeedback.active)
            => LitPads = IF s.kind = "zoom" THEN ZoomTarget(ZoomSteps(s.value))
                                            ELSE SuperknobTarget(s.value)


(***************************************************************************)
(* Beat-jump rate properties, checked under SpecBeatJump and               *)
(* SpecBeatJumpRate                                                        *)
(***************************************************************************)
\* C13: the first beat-jump tick of a deck sets the multiplier to 1 and does not escalate
\* it: the jump of that tick has size 1
C13_FirstTickUsesSizeOne ==
    \A i \in 1..Len(fx.ticks) :
        fx.ticks[i].first => fx.ticks[i].before = 1 /\ fx.ticks[i].multiplier = 1

\* the ticks followed are those of one deck from its first on, each gap ms after the one
\* before
SteadyTicks(gap) ==
    /\ fx.ticks # <<>>
    /\ fx.ticks[1].first
    /\ \A i \in 2..Len(fx.ticks) :
          fx.ticks[i].deck = fx.ticks[1].deck /\ fx.ticks[i].dt = gap

\* C14: from no prior state, ticks 10 ms apart have the multipliers 1, 2, 4, 8, 8, 8, one per
\* tick from the first on, and ticks 200 ms apart have multiplier 1 on every tick
C14_SteadyTickSequences ==
    /\ SteadyTicks(10)
          => \A i \in 1..Len(fx.ticks) :
                fx.ticks[i].multiplier = IF i <= 6 THEN <<1, 2, 4, 8, 8, 8>>[i] ELSE 8
    /\ SteadyTicks(200)
          => \A i \in 1..Len(fx.ticks) : fx.ticks[i].multiplier = 1

\* one step along 1, 2, 4, 8
RampStep(m) == CASE m = 1 -> 2 [] m = 2 -> 4 [] m = 4 -> 8 [] m = 8 -> 8

\* C15: for every tick of a deck after its first, with dt the time since the deck's previous
\* tick: dt < 50 moves the multiplier one step along 1, 2, 4, 8; 50 <= dt < 100 sets it to 2
\* if it was below 2 and leaves it otherwise; 100 <= dt <= 150 leaves it; dt > 150 makes it 1
C15_RateSteps ==
    \A i \in 1..Len(fx.ticks) :
        LET t == fx.ticks[i] IN
        ~t.first
            => /\ t.before \in {1, 2, 4, 8}
               /\ t.dt < 50 => t.multiplier = RampStep(t.before)
               /\ (50 <= t.dt /\ t.dt < 100)
                     => t.multiplier = IF t.before < 2 THEN 2 ELSE t.before
               /\ (100 <= t.dt /\ t.dt <= 150) => t.multiplier = t.before
               /\ t.dt > 150 => t.multiplier = 1
               /\ beatjumpRate.multiplier[t.deck] \in {1, 2, 4, 8}

\* C15 witness: a tick 150 ms after the previous one kept the multiplier 4, and the next
\* tick, 151 ms later, reset it to 1
C15_Witness ==
    \E i \in 2..Len(fx.ticks) :
        /\ ~fx.ticks[i - 1].first
        /\ fx.ticks[i - 1].dt = 150
        /\ fx.ticks[i - 1].before = 4
        /\ fx.ticks[i - 1].multiplier = 4
        /\ fx.ticks[i].dt = 151
        /\ fx.ticks[i].multiplier = 1


(***************************************************************************)
(* Beat-jump track boundaries, checked under SpecBeatJumpBounds            *)
(***************************************************************************)
\* the step is a beat-jump tick
BeatJumpTick == fx'.op \in MotionOps /\ fx'.dispatch = "beatjump"

\* a beat-jump tick on a deck with bpm > 0 and duration > 0 either sets the jump size to the
\* multiplier and pulses once in the motion's direction, when the jump stays within the
\* track, or writes only the transport position: 0 when the jump crosses the track's start,
\* endPosition when it crosses the track's end
JumpOrClamp(endPosition) ==
    BeatJumpTick =>
        LET t == fx'.ticks[Len(fx'.ticks)]
            direction == IF fx'.op = "nrpnIncrement" THEN 1 ELSE -1
            bpm == eng.bpm[t.deck]
            duration == eng.dur[t.deck]
            target == QAdd(QMul(eng.pos[t.deck], duration),
                           QMul(QInt(t.multiplier * direction), QDiv(QInt(60), bpm)))
        IN (bpm[1] > 0 /\ duration[1] > 0)
              => IF QLe(QInt(0), target) /\ QLe(target, duration)
                    THEN fx'.writes =
                            << W("Channel", t.deck, "beatjump_size", 0, QInt(t.multiplier)),
                               W("Channel", t.deck,
                                 IF direction = 1 THEN "beatjump_forward"
                                                  ELSE "beatjump_backward", 0, QInt(1)) >>
                    ELSE fx'.writes =
                            << W("Channel", t.deck, "playposition", 0,
                                 IF QLt(target, QInt(0)) THEN QInt(0) ELSE endPosition) >>

\* C16 as stated: with bpm > 0 and duration > 0 a beat-jump tick either sets the jump size
\* and emits one pulse in the motion's direction (target time within [0, duration]) or emits
\* no pulse and clamps the transport position to the crossed boundary: the track's start
\* (position 0) or the track's end (position 1)
C16_JumpOrClampToBoundary == [][JumpOrClamp(QInt(1))]_vars

\* C16: with bpm > 0 and duration > 0 a beat-jump tick either sets the jump size to the
\* multiplier and emits one pulse in the motion's direction (target time within
\* [0, duration]) or emits no pulse and writes the transport position: 0 when the jump
\* crosses the track's start, 0.999 (just before the end) when it crosses the track's end
C16_JumpOrClampBeforeEnd == [][JumpOrClamp(<<999, 1000>>)]_vars

\* C16 witness: a forward tick on a deck with bpm and duration crossed the track's end and
\* wrote only the transport position
C16_Witness ==
    /\ fx.op = "nrpnIncrement"
    /\ fx.dispatch = "beatjump"
    /\ fx.ticks # <<>>
    /\ LET deck == fx.ticks[Len(fx.ticks)].deck
       IN /\ eng.bpm[deck][1] > 0
          /\ eng.dur[deck][1] > 0
          /\ fx.writes = << W("Channel", deck, "playposition", 0, <<999, 1000>>) >>
          /\ eng.pos[deck] = <<999, 1000>>

\* C17: a beat-jump tick on a deck whose bpm or duration the host reports as 0 or less sets
\* the jump size to the multiplier and emits one pulse in the motion's direction, whatever
\* the position, and does not write the transport position
C17_PulseWithoutTrackInfo ==
    [][BeatJumpTick =>
          LET t == fx'.ticks[Len(fx'.ticks)]
              direction == IF fx'.op = "nrpnIncrement" THEN 1 ELSE -1
          IN (eng.bpm[t.deck][1] <= 0 \/ eng.dur[t.deck][1] <= 0)
                => /\ fx'.writes =
                         << W("Channel", t.deck, "beatjump_size", 0, QInt(t.multiplier)),
                            W("Channel", t.deck,
                              IF direction = 1 THEN "beatjump_forward"
                                               ELSE "beatjump_backward", 0, QInt(1)) >>
                   /\ eng'.pos = eng.pos]_vars

\* C17 witness: a backward tick at the start of a deck without bpm emitted the pulse
C17_Witness ==
    /\ fx.op = "nrpnDecrement"
    /\ fx.dispatch = "beatjump"
    /\ fx.ticks # <<>>
    /\ LET deck == fx.ticks[Len(fx.ticks)].deck
       IN /\ eng.bpm[deck][1] = 0
          /\ eng.dur[deck][1] > 0
          /\ eng.pos[deck] = QInt(0)
          /\ Len(fx.writes) = 2
          /\ fx.writes[2][3] = "beatjump_backward"


(***************************************************************************)
(* Zoom and superknob transfer functions, checked under SpecZoom and       *)
(* SpecSuperknob                                                           *)
(***************************************************************************)
\* the step is a motion dispatched to the handler of the given type
TurnOf(type) == fx'.op \in MotionOps /\ fx'.dispatch = type

\* magnitude * mapping.speed * 0.05 of a zoom motion
ZoomAmount(ch, magnitude) ==
    QMul(QMul(QInt(magnitude), EncoderMappings[ch].speed), <<5, 100>>)

\* direction' of a zoom motion: the direction after the configured inversion
ZoomDirection(op) ==
    LET direction == IF op = "nrpnIncrement" THEN 1 ELSE -1
    IN IF config.reverseDirection THEN -direction ELSE direction

\* z * (1 + direction' * magnitude * mapping.speed * 0.05), before the clamp
ZoomUnclamped(z, op, ch, magnitude) ==
    QMul(z, QAdd(QInt(1), QMul(QInt(ZoomDirection(op)), ZoomAmount(ch, magnitude))))

InZoomRange(z) == QLe(MIN_ZOOM, z) /\ QLe(z, MAX_ZOOM)

\* a zoom motion writes z' = clamp(z * (1 + direction' * magnitude * speed * 0.05)), which
\* lies within [MIN_ZOOM, MAX_ZOOM], and calls the zoom visualization of the deck with z':
\* always, or (onlyWhenEnabled) when the zoom feedback is enabled and not at all otherwise
ZoomStep(onlyWhenEnabled) ==
    TurnOf("zoom") =>
        LET deck == EncoderMappings[fx'.ch].deck
            z == eng.zoom[deck]
            zNew == Clamp(ZoomUnclamped(z, fx'.op, fx'.ch, fx'.val), MIN_ZOOM, MAX_ZOOM)
        IN /\ fx'.writes = << W("Channel", deck, "waveform_zoom", 0, zNew) >>
           /\ eng'.zoom[deck] = zNew
           /\ InZoomRange(zNew)
           /\ IF onlyWhenEnabled /\ ~config.enabled
                 THEN fx'.show = <<>>
                 ELSE fx'.show = << ShowCall("zoom", deck, zNew, zoomFeedback) >>

\* C18 as stated: a zoom motion writes z' = clamp(z * (1 + direction' * magnitude * speed *
\* 0.05), MIN_ZOOM, MAX_ZOOM), a value within [MIN_ZOOM, MAX_ZOOM], and triggers the zoom
\* visualization with exactly z'
C18_ZoomWriteAndVisualize == [][ZoomStep(FALSE)]_vars

\* C18: a zoom motion writes z' = clamp(z * (1 + direction' * magnitude * speed * 0.05),
\* MIN_ZOOM, MAX_ZOOM), a value within [MIN_ZOOM, MAX_ZOOM]; when the zoom feedback is
\* enabled it triggers the zoom visualization with exactly z', and when it is disabled it
\* triggers no visualization
C18_ZoomWriteAndVisualizeIfEnabled == [][ZoomStep(TRUE)]_vars

\* C18 witness: with the feedback enabled, a motion of magnitude 64 on the slow zoom channel
\* wrote a zoom strictly inside the range and showed it
C18_Witness ==
    /\ fx.op \in MotionOps
    /\ fx.dispatch = "zoom"
    /\ fx.ch = 2
    /\ fx.val = 64
    /\ config.enabled
    /\ Len(fx.writes) = 1
    /\ QLt(MIN_ZOOM, fx.writes[1][5]) /\ QLt(fx.writes[1][5], MAX_ZOOM)
    /\ fx.writes[1][5] # fx.before[1]
    /\ Len(fx.show) = 1
    /\ fx.show[1].value = fx.writes[1][5]

\* an increment and then a decrement of the same magnitude on the same zoom channel, with
\* nothing in between and neither step hitting the clamp bounds, leaves the host zoom at its
\* pre-turn value z (lossless) or at z * (1 - (magnitude * speed * 0.05)^2)
ZoomThereAndBack(lossless) ==
    (/\ TurnOf("zoom")
     /\ fx.op = "nrpnIncrement" /\ fx.dispatch = "zoom"
     /\ fx'.op = "nrpnDecrement"
     /\ fx'.ch = fx.ch /\ fx'.val = fx.val
     /\ InZoomRange(ZoomUnclamped(fx.before[1], fx.op, fx.ch, fx.val))
     /\ InZoomRange(ZoomUnclamped(fx'.before[1], fx'.op, fx'.ch, fx'.val)))
        => LET deck == EncoderMappings[fx.ch].deck
               z == fx.before[1]
               a == ZoomAmount(fx.ch, fx.val)
           IN eng'.zoom[deck] = IF lossless THEN z
                                ELSE QMul(z, QSub(QInt(1), QMul(a, a)))

\* C19 as stated: an increment followed by a decrement with equal magnitude * speed on the
\* same zoom channel returns the host zoom to its pre-turn value whenever neither step hits
\* the clamp bounds
C19_ZoomRoundTripLossless == [][ZoomThereAndBack(TRUE)]_vars

\* C19: an increment followed by a decrement with equal magnitude * speed on the same zoom
\* channel, neither step hitting the clamp bounds, leaves the host zoom at
\* z * (1 - (magnitude * speed * 0.05)^2), z being the pre-turn value
C19_ZoomRoundTripLoss == [][ZoomThereAndBack(FALSE)]_vars

\* C19 witness: after an increment of magnitude 64 on the slow zoom channel from zoom 3, the
\* decrement of magnitude 64 left the zoom at 3 * (1 - 0.32^2) = 2.6928
C19_Witness ==
    /\ fx.op = "nrpnDecrement"
    /\ fx.dispatch = "zoom"
    /\ fx.ch = 2
    /\ fx.val = 64
    /\ fx.before # <<>>
    /\ fx.before[1] \in {<<51, 25>>, <<99, 25>>}
    /\ eng.zoom[EncoderMappings[2].deck] = <<1683, 625>>

\* C20: a superknob motion writes v' = clamp(v + direction * magnitude * speed * 0.001, 0, 1)
\* to the deck's super knob, a value within [0, 1], and calls the superknob visualization of
\* that deck with exactly v'
C20_SuperknobWriteAndVisualize ==
    [][TurnOf("superknob") =>
          LET mapping == EncoderMappings[fx'.ch]
              direction == IF fx'.op = "nrpnIncrement" THEN 1 ELSE -1
              v == eng.super1[mapping.deck]
              vNew == Clamp(QAdd(v, QMul(QMul(QInt(direction * fx'.val), mapping.speed),
                                         <<1, 1000>>)),
                            QInt(0), QInt(1))
          IN /\ fx'.writes =
                   << W("QuickEffectRack1_Channel", mapping.deck, "super1", 0, vNew) >>
             /\ eng'.super1[mapping.deck] = vNew
             /\ QLe(QInt(0), vNew) /\ QLe(vNew, QInt(1))
             /\ fx'.show =
                   << ShowCall("superknob", mapping.deck, vNew, superknobFeedback) >>]_vars

\* C20 witness: an increment of magnitude 50 from the neutral position wrote 0.7 and showed
\* it
C20_Witness ==
    /\ fx.op = "nrpnIncrement"
    /\ fx.dispatch = "superknob"
    /\ fx.val = 50
    /\ fx.before = << <<1, 2>> >>
    /\ Len(fx.writes) = 1
    /\ fx.writes[1][5] = <<7, 10>>
    /\ Len(fx.show) = 1
    /\ fx.show[1].value = <<7, 10>>


(***************************************************************************)
(* The pads of the two visualizations, checked under SpecZoomLevels and    *)
(* SpecSuperknobLevels                                                     *)
(***************************************************************************)
\* the k-th pad from the bottom-left corner: bottom row left to right, then the row above
FromBottomLeft(k) == GRID[Len(GRID) - ((k - 1) \div 4)][((k - 1) % 4) + 1]

\* the k-th pad from the top-right corner: top row right to left, then the row below
FromTopRight(k) == GRID[((k - 1) \div 4) + 1][4 - ((k - 1) % 4)]

\* floor(((value - MIN_ZOOM) / (MAX_ZOOM - MIN_ZOOM)) * 16) clamped to [0, 15], for the
\* value n / d
StepsOf(value) ==
    LET raw == (16 * (value[1] - MIN_ZOOM[1] * value[2]))
                  \div ((MAX_ZOOM[1] - MIN_ZOOM[1]) * value[2])
    IN IF raw < 0 THEN 0 ELSE IF raw > 15 THEN 15 ELSE raw

\* C21: after the zoom visualization was shown a value, the lit pads are exactly the first
\* steps + 1 pads from the bottom-left corner, steps being floor(((value - MIN_ZOOM) /
\* (MAX_ZOOM - MIN_ZOOM)) * 16) clamped to [0, 15]; value 8 lights exactly the two pads at
\* the left of the bottom row, and a value at or below MIN_ZOOM lights exactly one pad
C21_ZoomLightsStepsPlusOne ==
    \A s \in Range(fx.show) :
        s.kind = "zoom"
            => /\ LitPads = {FromBottomLeft(k) : k \in 1..(StepsOf(s.value) + 1)}
               /\ Cardinality(LitPads) = StepsOf(s.value) + 1
               /\ zoomFeedback.currentPadStates = LitPads
               /\ s.value = <<8, 1>> => LitPads = {GRID[4][1], GRID[4][2]}
               /\ QLe(s.value, MIN_ZOOM) => Cardinality(LitPads) = 1

\* C21 witness: zoom 8 was shown while 64 was displayed, and two pads are lit
C21_Witness ==
    \E s \in Range(fx.show) :
        /\ s.kind = "zoom"
        /\ s.value = <<8, 1>>
        /\ s.before.active
        /\ s.before.lastLevel = 10
        /\ Cardinality(LitPads) = 2

\* round((1 - |value - 0.5| * 2) * 16) clamped to [0, 16], for the value n / d:
\* 16 - 16 * |2n - d| / d, rounded half up
CountOf(value) ==
    LET dist == IF 2 * value[1] >= value[2] THEN 2 * value[1] - value[2]
                                            ELSE value[2] - 2 * value[1]
        raw == (2 * 16 * (value[2] - dist) + value[2]) \div (2 * value[2])
    IN IF raw < 0 THEN 0 ELSE IF raw > 16 THEN 16 ELSE raw

\* C22: after the superknob visualization was shown a value, exactly count pads are lit,
\* count being round((1 - |value - 0.5| * 2) * 16) clamped to [0, 16]: 16 pads at 0.5, none
\* at 0 and at 1, and 8 at 0.75
C22_SuperknobLightsCount ==
    \A s \in Range(fx.show) :
        s.kind = "superknob"
            => /\ Cardinality(LitPads) = CountOf(s.value)
               /\ superknobFeedback.currentPadStates = LitPads
               /\ s.value = <<1, 2>> => LitPads = Pads
               /\ s.value \in {<<0, 1>>, <<1, 1>>} => LitPads = {}
               /\ s.value = <<3, 4>> => Cardinality(LitPads) = 8

\* C22 witness: 0.75 was shown while all 16 pads were lit for 0.5, and 8 pads are lit
C22_Witness ==
    \E s \in Range(fx.show) :
        /\ s.kind = "superknob"
        /\ s.value = <<3, 4>>
        /\ s.before.active
        /\ s.before.lastValue = <<1, 2>>
        /\ Cardinality(s.before.currentPadStates) = 16
        /\ Cardinality(LitPads) = 8


\* C23: after the superknob visualization was shown a value, the unlit pads are the first
\* 16 - count pads from the bottom-left corner when the value is below 0.5 and the first
\* 16 - count pads from the top-right corner when it is above 0.5; at 0.75 the 8 lit pads
\* are the 8 nearest the bottom-left corner
C23_UnlitFromNamedEnd ==
    \A s \in Range(fx.show) :
        s.kind = "superknob"
            => LET unlit == Pads \ LitPads
                   n == 16 - CountOf(s.value)
               IN /\ QLt(s.value, <<1, 2>>) => unlit = {FromBottomLeft(k) : k \in 1..n}
                  /\ QGt(s.value, <<1, 2>>) => unlit = {FromTopRight(k) : k \in 1..n}
                  /\ s.value = <<3, 4>> => LitPads = {FromBottomLeft(k) : k \in 1..8}


(***************************************************************************)
(* The differential update, checked under SpecLevels                       *)
(***************************************************************************)
\* the show() call found the session active on the same deck at the same step or value
SameAsShown(s) ==
    /\ s.before.active
    /\ s.before.deck = s.deck
    /\ IF s.kind = "zoom" THEN s.before.lastLevel = StepsOf(s.value)
                          ELSE s.before.lastValue = s.value

\* the pads the session of the show() call holds lit after it
ShownPads(s) ==
    IF s.kind = "zoom" THEN zoomFeedback.currentPadStates
                       ELSE superknobFeedback.currentPadStates

\* C24: within one show() that redraws, every pad of the old lit set that is not in the new
\* one gets an off message, every pad of the new set that is not in the old one gets an on
\* message, every off message is sent before any on message, and a pad that is in both sets
\* gets no message
C24_OffBeforeOnAndKeptUntouched ==
    \A s \in Range(fx.show) :
        ~SameAsShown(s)
            => LET old == s.before.currentPadStates
                   new == ShownPads(s)
                   n == Len(fx.midi)
               IN /\ \A p \in old \ new : \E i \in 1..n : IsOff(fx.midi[i]) /\ fx.midi[i][2] = p
                  /\ \A p \in new \ old : \E i \in 1..n : IsOn(fx.midi[i]) /\ fx.midi[i][2] = p
                  /\ \A i, j \in 1..n : (IsOff(fx.midi[i]) /\ ~IsOff(fx.midi[j])) => i < j
                  /\ \A p \in old \cap new : \A i \in 1..n : fx.midi[i][2] # p

\* C24 witness: a show() turned some pads off, turned others on and kept others lit
C24_Witness ==
    \E s \in Range(fx.show) :
        /\ ~SameAsShown(s)
        /\ s.before.currentPadStates \ ShownPads(s) # {}
        /\ ShownPads(s) \ s.before.currentPadStates # {}
        /\ s.before.currentPadStates \cap ShownPads(s) # {}
        /\ \E i \in 1..Len(fx.midi) : IsOff(fx.midi[i])
        /\ \E i \in 1..Len(fx.midi) : IsOn(fx.midi[i])


(***************************************************************************)
(* Beatgrid and jogwheel motions, checked under SpecNudge                  *)
(***************************************************************************)
\* the step leaves both feedback sessions, their timers, the LEDs and every state the
\* scripts keep as they were, and sends no LED message
NothingRetained ==
    /\ zoomFeedback' = zoomFeedback
    /\ superknobFeedback' = superknobFeedback
    /\ timers' = timers
    /\ stTimers' = stTimers
    /\ padLED' = padLED
    /\ beatjumpRate' = beatjumpRate
    /\ nrpnParams' = nrpnParams
    /\ nrpnState' = nrpnState
    /\ currentBank' = currentBank
    /\ config' = config
    /\ fx'.midi = <<>>
    /\ fx'.show = <<>>
    /\ fx'.began = <<>>

\* a beatgrid motion of the current script writes direction * magnitude * mapping.speed to
\* beats_translate_move of the mapping's deck
BeatgridWrite ==
    TurnOf("beatgrid") =>
        LET mapping == EncoderMappings[fx'.ch]
            direction == IF fx'.op = "nrpnIncrement" THEN 1 ELSE -1
        IN /\ fx'.writes =
                 << W("Channel", mapping.deck, "beats_translate_move", 0,
                      QMul(QInt(direction * fx'.val), mapping.speed)) >>
           /\ NothingRetained

\* a jogwheel motion writes direction * magnitude * mapping.speed * 0.01 to jog of the deck
JogwheelWrite ==
    fx'.op = "jogwheelMotion" =>
        /\ fx'.writes =
              << W("Channel", fx'.ch, "jog", 0,
                   QMul(QMul(QInt(fx'.val), config.jogwheelSpeed), <<1, 100>>)) >>
        /\ NothingRetained

\* a beatgrid motion of the legacy script writes to beats_translate_move of the mapping's
\* deck: direction * magnitude * mapping.speed (scaled), or the direction alone
LegacyBeatgridWrite(scaled) ==
    (fx'.op \in LegacyMotionOps /\ fx'.dispatch = "beats_translate_move") =>
        LET mapping == nrpnChannelMappings[fx'.ch]
            direction == IF fx'.op = "handleNRPNIncrement" THEN 1 ELSE -1
        IN /\ fx'.writes =
                 << W("Channel", mapping.deck, "beats_translate_move", 0,
                      IF scaled THEN QMul(QInt(direction * fx'.val), mapping.speed)
                                ELSE QInt(direction)) >>
           /\ NothingRetained

\* C25 as stated: a beatgrid motion, in the current and in the legacy script, writes exactly
\* direction * magnitude * mapping.speed to the deck's beats_translate_move, unclamped, and a
\* jogwheel motion writes direction * magnitude * mapping.speed * 0.01 to jog; neither
\* changes a feedback session, sends an LED message or retains state
C25_NudgeWritesScaled ==
    [][BeatgridWrite /\ JogwheelWrite /\ LegacyBeatgridWrite(TRUE)]_vars

\* C25: a beatgrid motion of the current script writes exactly direction * magnitude *
\* mapping.speed to the deck's beats_translate_move, unclamped, and a jogwheel motion writes
\* direction * magnitude * mapping.speed * 0.01 to jog; a beatgrid motion of the legacy
\* script writes the direction alone (+1 or -1) whatever the magnitude; none of them changes
\* a feedback session, sends an LED message or retains state
C25_NudgeWrites ==
    [][BeatgridWrite /\ JogwheelWrite /\ LegacyBeatgridWrite(FALSE)]_vars

\* C25 witness: with the beatgrid speed set to 3 and both sessions active, a decrement of
\* magnitude 64 on a beatgrid channel wrote -192
C25_Witness ==
    /\ fx.op = "nrpnDecrement"
    /\ fx.dispatch = "beatgrid"
    /\ fx.val = 64
    /\ config.beatgridSpeed = <<3, 1>>
    /\ Len(fx.writes) = 1
    /\ fx.writes[1][5] = <<-192, 1>>
    /\ zoomFeedback.active
    /\ superknobFeedback.active


(***************************************************************************)
(* Per-channel NRPN state, checked under SpecChannels                      *)
(***************************************************************************)
SelectOps == {"nrpnMSB", "nrpnLSB"}

LegacySelectOps == {"handleNRPNMSB", "handleNRPNLSB"}

\* C26: the NRPN state of a channel (msb, lsb, parameter) changes only in a step that
\* handles an MSB (CC 99) or LSB (CC 98) message on that same channel, in the current and
\* in the legacy script: a select on channel c leaves every other channel's state as it
\* was, and a motion (CC 96 / CC 97) or a pad note changes no channel's state
C26_ChannelStateIsolated ==
    [][/\ \A c \in DOMAIN nrpnParams :
             nrpnParams'[c] # nrpnParams[c] => (fx'.op \in SelectOps /\ fx'.ch = c)
       /\ \A c \in DOMAIN nrpnState :
             nrpnState'[c] # nrpnState[c] => (fx'.op \in LegacySelectOps /\ fx'.ch = c)
       /\ fx'.op \in MotionOps \cup LegacyMotionOps \cup {"padPress", "padLedTimer"} =>
             (nrpnParams' = nrpnParams /\ nrpnState' = nrpnState)]_vars

\* C26 witness: both selecting channels of the current script hold different parameters,
\* a legacy channel holds one the others do not, and the last step was a pad press that was dispatched
C26_Witness ==
    /\ nrpnParams[PAD_CHANNEL + 1].param = setParameter(127, 127)
    /\ nrpnParams[13].param = setParameter(127, 0)
    /\ nrpnState[2].currentParameter = setParameter(127, 0)
    /\ nrpnState[1] # nrpnState[2]
    /\ fx.op = "padPress"
    /\ fx.writes # <<>>


(***************************************************************************)
(* State.cleanupAllTimers, checked under SpecCleanup                       *)
(***************************************************************************)
\* the handles State keeps: the tracked timers and the timer of each session
KeptHandles == (Range(stTimers) \cup {zoomFeedback.timer, superknobFeedback.timer}) \ {0}

\* the step ran State.cleanupAllTimers
CleanupStep ==
    \/ fx'.op \in {"init", "shutdown", "reinitTimer"}
    \/ fx'.op = "reconfigure" /\ initialized

\* C27: a step that runs cleanupAllTimers (init, shutdown, reconfigure) goes through
\* whatever handles are stale, stops every pending timer whose handle was kept, and leaves
\* both sessions' timer handles null and the tracked list holding nothing but the handle of
\* the startup timer that init begins after the cleanup
C27_CleanupLeavesNoHandle ==
    [][CleanupStep =>
          /\ zoomFeedback'.timer = 0
          /\ superknobFeedback'.timer = 0
          /\ \A t \in timers :
                t.id \in KeptHandles => (t \notin timers' \/ t.kind \in Range(fx'.began))
          /\ Len(stTimers') = (IF fx'.op = "shutdown" \/ fx'.op = "reconfigure" THEN 0 ELSE 1)
          /\ \A i \in 1..Len(stTimers') :
                \E t \in timers' : t.id = stTimers'[i] /\ t.kind = "startAnim"]_vars

\* C27 witness: shutdown() ran its cleanup after the start timer and at least six timers of
\* the startup animation had fired: it stopped the rest of them and a session's timer
C27_Witness ==
    /\ fx.op = "shutdown"
    /\ Len(fx.stopped) \in 4..10
    /\ zoomFeedback.active
    /\ zoomFeedback.timer = 0
    /\ superknobFeedback.timer = 0
    /\ stTimers = <<>>


(***************************************************************************)
(* The LED messages, checked under SpecPads                                *)
(***************************************************************************)
\* the messages of the step that light pad p / clear pad p
LightsSent(msgs, p) == {i \in 1..Len(msgs) : msgs[i] = <<153, p, 127>>}

ClearsSent(msgs, p) == {i \in 1..Len(msgs) : msgs[i] = <<137, p, 0>>}

\* C28: every pad lit in a step was sent a Note On on the pad channel (status 0x99 = 153)
\* with velocity 127 and every pad cleared a Note Off (status 0x89 = 137) with velocity 0,
\* each carrying the pad's note; the script sends no other Note message, and the one other
\* message it sends is the CC (status 0xB9 = 185) that follows each Note On with the same
\* note and value
C28_LedMessages ==
    [][/\ \A p \in Pads :
             /\ (padLED'[p] /\ ~padLED[p]) => LightsSent(fx'.midi, p) # {}
             /\ (~padLED'[p] /\ padLED[p]) => ClearsSent(fx'.midi, p) # {}
       /\ \A i \in 1..Len(fx'.midi) :
             LET m == fx'.midi[i]
             IN /\ m[2] \in Pads
                /\ \/ i \in LightsSent(fx'.midi, m[2])
                   \/ i \in ClearsSent(fx'.midi, m[2])
                   \/ /\ m = <<185, m[2], 127>>
                      /\ i - 1 \in LightsSent(fx'.midi, m[2])]_vars

\* C28 witness: a step sent messages that lit one pad and cleared another
C28_Witness ==
    \E p, q \in Pads :
        /\ LightsSent(fx.midi, p) # {}
        /\ ClearsSent(fx.midi, q) # {}
        /\ padLED[p]
        /\ ~padLED[q]


(***************************************************************************)
(* The full-grid clear, checked under SpecLevels                           *)
(***************************************************************************)
\* the off messages of the step
OffsSent == {i \in 1..Len(fx.midi) : IsOff(fx.midi[i])}

\* the show() call cleared the whole grid: beside the off messages for the pads that left
\* the lit set, it sent one off message to each pad of the grid
ClearedGrid(s) ==
    Cardinality(OffsSent)
        = Len(NOTES) + Cardinality(s.before.currentPadStates \ ShownPads(s))

\* C29: a show() call clears the whole grid exactly when it takes the session from inactive
\* to active: the call that activates the session clears it once, and no call on a session
\* that is already active clears it again, whatever number of pads (0..16) the session holds
C29_ClearOnlyOnActivation ==
    \A s \in Range(fx.show) : ClearedGrid(s) <=> ~s.before.active


(***************************************************************************)
(* The timer handle of an active session, checked under Spec               *)
(***************************************************************************)
\* C30: in every reachable state a session that is active holds the handle of its expiry
\* timer (the handle is not null), after any sequence of motions, expiries, init() and
\* shutdown()
C30_ActiveSessionHoldsHandle ==
    /\ zoomFeedback.active => zoomFeedback.timer # 0
    /\ superknobFeedback.active => superknobFeedback.timer # 0


(***************************************************************************)
(* Steady-state LED writes while a session is active, checked under        *)
(* SpecPads                                                                *)
(***************************************************************************)
\* the steps that write steady-state LEDs: the host's value-change callbacks, the deferred
\* refresh of a pad press, and setBank()
SteadyStateOps == {"hotcueChanged", "featureChanged", "padLedTimer", "setBank"}

\* C31: while a session is active no steady-state LED write reaches the grid: a value-change
\* callback, a deferred refresh of an earlier pad press and setBank() send no LED message,
\* and the expiry of the other kind's session sends nothing but the off messages of its own
\* pads
C31_NoSteadyWriteWhileActive ==
    (zoomFeedback.active \/ superknobFeedback.active)
        => /\ fx.op \in SteadyStateOps => fx.midi = <<>>
           /\ \A b \in Range(fx.ended) :
                 fx.midi = setPadLEDs(SortedSeq(b.currentPadStates), FALSE)


(***************************************************************************)
(* The fields of a session, checked under Spec                             *)
(***************************************************************************)
\* C32: in every reachable state a session that is inactive has its other fields cleared
\* (deck null, last level / last value null, timer null, no pad held), and a session that
\* is active has a deck and a last level / last value
C32_SessionFieldsConsistent ==
    /\ IF zoomFeedback.active
          THEN zoomFeedback.deck # 0 /\ zoomFeedback.lastLevel # -1
          ELSE /\ zoomFeedback.deck = 0
               /\ zoomFeedback.lastLevel = -1
               /\ zoomFeedback.timer = 0
               /\ zoomFeedback.currentPadStates = {}
    /\ IF superknobFeedback.active
          THEN superknobFeedback.deck # 0 /\ superknobFeedback.lastValue # NullQ
          ELSE /\ superknobFeedback.deck = 0
               /\ superknobFeedback.lastValue = NullQ
               /\ superknobFeedback.timer = 0
               /\ superknobFeedback.currentPadStates = {}

\* C32 witness: the zoom session expired, after a cleanup had taken the timer of the
\* superknob session, which is still active
C32_Witness ==
    /\ fx.op = "endZoomFeedback"
    /\ ~zoomFeedback.active
    /\ superknobFeedback.active
    /\ superknobFeedback.timer = 0
    /\ superknobFeedback.currentPadStates # {}


(***************************************************************************)
(* The multiplier of each deck, checked under SpecBeatJumpDecks            *)
(***************************************************************************)
Multipliers == {1, 2, 4, 8}

\* C33: for every deck that has received a beat-jump tick the stored multiplier is one of
\* 1, 2, 4, 8, whatever the ticks and the intervals between them, and a jump size written to
\* the host is the multiplier stored for that deck
C33_MultiplierIsPowerOfTwo ==
    /\ \A d \in Decks :
          beatjumpRate.lastTime[d] # 0 => beatjumpRate.multiplier[d] \in Multipliers
    /\ \A i \in 1..Len(fx.ticks) : fx.ticks[i].multiplier \in Multipliers
    /\ \A i \in 1..Len(fx.writes) :
          fx.writes[i][3] = "beatjump_size"
              => fx.writes[i][5] = QInt(beatjumpRate.multiplier[fx.writes[i][2]])

\* C33 witness: a fast tick took one deck from 4 to 8 and wrote the jump size 8 while the
\* other deck, ticked before, is at a lower multiplier
C33_Witness ==
    /\ Len(fx.ticks) = 4
    /\ fx.ticks[4].before = 4
    /\ \E i \in 1..Len(fx.writes) :
          fx.writes[i][3] = "beatjump_size" /\ fx.writes[i][5] = QInt(8)
    /\ \E d \in Decks :
          /\ d # fx.ticks[4].deck
          /\ beatjumpRate.lastTime[d] # 0
          /\ beatjumpRate.multiplier[d] < 8


(***************************************************************************)
(* The rate state of each deck, checked under SpecBeatJumpDecks            *)
(***************************************************************************)
\* the multiplier the rate rules give a deck at multiplier m whose previous tick was dt ms ago
RateRule(m, dt) ==
    IF dt < 50 THEN RampStep(m)
    ELSE IF dt < 100 THEN (IF m < 2 THEN 2 ELSE m)
    ELSE IF dt <= 150 THEN m
    ELSE 1

\* C34: a beat-jump tick on one deck leaves the last-tick time and the multiplier of every
\* other deck as they were, stores the present time for its own deck, and, when it is not
\* the deck's first tick, gives the deck the multiplier the rate rules make of the deck's own
\* multiplier and of the time since the deck's own previous tick
C34_RateStatePerDeck ==
    [][BeatJumpTick =>
          LET t == fx'.ticks[Len(fx'.ticks)]
          IN /\ \A d \in Decks \ {t.deck} :
                   /\ beatjumpRate'.lastTime[d] = beatjumpRate.lastTime[d]
                   /\ beatjumpRate'.multiplier[d] = beatjumpRate.multiplier[d]
             /\ beatjumpRate'.lastTime[t.deck] = now
             /\ beatjumpRate.lastTime[t.deck] # 0
                   => beatjumpRate'.multiplier[t.deck] =
                         RateRule(beatjumpRate.multiplier[t.deck],
                                  now - beatjumpRate.lastTime[t.deck])]_vars

\* C34 witness: two decks ticked in turn; the last tick came 10 ms after the other deck's
\* tick and 210 ms after its own deck's previous one, and reset its deck to 1 while the
\* other deck stays at 4
C34_Witness ==
    /\ Len(fx.ticks) = 4
    /\ fx.ticks[4].deck # fx.ticks[3].deck
    /\ fx.ticks[4].dt = 210
    /\ fx.ticks[4].multiplier = 1
    /\ beatjumpRate.lastTime[fx.ticks[3].deck] = now - 10
    /\ beatjumpRate.multiplier[fx.ticks[3].deck] = 4
    /\ beatjumpRate.multiplier[fx.ticks[4].deck] = 1


(***************************************************************************)
(* The value-change callbacks, checked under SpecPads                      *)
(***************************************************************************)
CallbackOps == {"hotcueChanged", "featureChanged"}

\* the pads of the current bank that show the control the callback of the step was called for
PadsShowing(f) ==
    {n \in DOMAIN BankMappings[currentBank] :
        LET mapping == BankMappings[currentBank][n]
        IN /\ mapping.deck = f.ch
           /\ mapping.type = f.dispatch
           /\ f.op = "hotcueChanged" => mapping.number = f.before[1]}

\* C35: a value-change notification for a hotcue or a feature of a deck that a pad of the
\* current bank shows sets the LED of that one pad, on iff value > 0, and sends no message
\* for any other pad; a notification for a control no pad of the current bank shows sends no
\* LED message
C35_CallbackUpdatesOnePad ==
    [][fx'.op \in CallbackOps =>
          LET hits == PadsShowing(fx')
          IN /\ currentBank' = currentBank
             /\ Cardinality(hits) <= 1
             /\ hits = {} => (fx'.midi = <<>> /\ padLED' = padLED)
             /\ \A p \in hits :
                   /\ padLED'[p] = (fx'.val > 0)
                   /\ \A q \in Pads \ {p} : padLED'[q] = padLED[q]
                   /\ fx'.midi # <<>>
                   /\ \A i \in 1..Len(fx'.midi) : fx'.midi[i][2] = p
                   /\ IF fx'.val > 0 THEN LightsSent(fx'.midi, p) = {1}
                                     ELSE fx'.midi = << <<137, p, 0>> >>]_vars

\* C35 witness: in bank 2 the host set the hotcue that pad 48 shows, and that pad alone is
\* lit, while the feature that pad 48 shows in bank 1 is on as well
C35_Witness ==
    /\ fx.op = "hotcueChanged"
    /\ fx.val > 0
    /\ currentBank = 2
    /\ PadsShowing(fx) = {48}
    /\ padLED[48]
    /\ \E c \in ChangedFeatures : eng.feat[c[1]][c[2]] > 0
    /\ \A p \in Pads \ {48} : ~padLED[p]


(***************************************************************************)
(* Zoom motions with the feedback disabled, checked under SpecZoomDisabled *)
(***************************************************************************)
\* C36: with the zoom feedback disabled in the configuration, a zoom motion writes the
\* clamped zoom to the host, leaves both sessions, the timers and the LEDs as they were,
\* begins no timer and sends no LED message; and a pad press that follows such a motion
\* while no session is active is forwarded to the handling of the pad's mapping
C36_DisabledZoomOnlyWrites ==
    [][/\ (TurnOf("zoom") /\ ~config.enabled) =>
             LET deck == EncoderMappings[fx'.ch].deck
                 z == ZoomUnclamped(eng.zoom[deck], fx'.op, fx'.ch, fx'.val)
             IN /\ fx'.writes =
                      <<W("Channel", deck, "waveform_zoom", 0, Clamp(z, MIN_ZOOM, MAX_ZOOM))>>
                /\ zoomFeedback' = zoomFeedback
                /\ superknobFeedback' = superknobFeedback
                /\ timers' = timers
                /\ padLED' = padLED
                /\ fx'.midi = <<>>
                /\ fx'.began = <<>>
                /\ fx'.show = <<>>
       /\ (/\ fx.op \in MotionOps /\ fx.dispatch = "zoom" /\ ~config.enabled
           /\ ~zoomFeedback.active /\ ~superknobFeedback.active
           /\ fx'.op = "padPress" /\ fx'.val > 0)
             => (fx'.writes # <<>> /\ fx'.began = <<"padLed">>)]_vars

\* C36 witness: the pad press that followed a zoom motion with the feedback disabled was
\* forwarded: it toggled its feature, and no session is active
C36_Witness ==
    /\ fx.op = "padPress"
    /\ fx.writes # <<>>
    /\ ~config.enabled
    /\ ~zoomFeedback.active
    /\ eng.zoom[EncoderMappings[1].deck] \notin DisabledZoomLevels


(***************************************************************************)
(* setEncoderSpeeds, checked under SpecEncoderSpeeds                       *)
(***************************************************************************)
\* the argument is a number strictly between 0 and MAX_ENCODER_SPEED
WithinSpeedRange(arg) == QLt(QInt(0), arg[1]) /\ QLt(arg[1], QInt(MAX_ENCODER_SPEED))

\* the configured speed after a call that is applied: the supplied one, or the one before
Supplied(arg, current) == IF arg = <<>> THEN current ELSE arg[1]

HardwarePads == Range(TOP_ROW) \cup Range(SECOND_ROW) \cup Range(THIRD_ROW)
                   \cup Range(BOTTOM_ROW)

\* the function maps its domain one-to-one onto the set
OneToOneOnto(f, S) ==
    /\ \A a, b \in DOMAIN f : f[a] = f[b] => a = b
    /\ {f[a] : a \in DOMAIN f} = S

\* C38: under every supported layout configuration the generated feature bank maps the 16
\* pads one-to-one onto the 16 (feature, deck) pairs, and each generated hotcue bank maps
\* the 16 pads one-to-one onto the hotcues 1..16 of its deck
C38_BanksAreBijections ==
    fx.op = "loadLayout" =>
        LET banks == fx.show
            pairOf == [p \in DOMAIN banks[1] |-> <<banks[1][p].type, banks[1][p].deck>>]
        IN /\ Len(banks) = MAX_BANKS
           /\ DOMAIN banks[1] = HardwarePads
           /\ Cardinality(HardwarePads) = 16
           /\ OneToOneOnto(pairOf, FeatureTypes \X Decks)
           /\ \A b \in {2, 3} :
                 /\ DOMAIN banks[b] = HardwarePads
                 /\ OneToOneOnto([p \in DOMAIN banks[b] |-> banks[b][p].number],
                                 1..MAX_HOTCUES)
                 /\ \A p \in DOMAIN banks[b] :
                       banks[b][p].type = "hotcue" /\ banks[b][p].deck = b - 1

\* C38 witness: the banks generated for the device turned 180 degrees clockwise, indexed in
\* descending order with the decks in reverse, which differ from the shipped ones
C38_Witness ==
    /\ fx.op = "loadLayout"
    /\ fx.before = <<180, "clockwise", "descending", <<4, 3, 2, 1>> >>
    /\ \E p \in HardwarePads : fx.show[1][p] # BankMappings[1][p]
    /\ \E p \in HardwarePads : fx.show[2][p].number # BankMappings[2][p].number


(***************************************************************************)
(* The shutdown animation, checked under SpecAnimation                     *)
(***************************************************************************)
\* the step is a firing of the repeating timer of runShutdownAnimation whose counter
\* currentPad was k when it fired
SweepStep(k) == fx'.op = "shutdownAnimTimer" /\ fx'.ch = k

\* C39: the shutdown animation terminates: the firing of its repeating timer with
\* currentPad = k < 16 lights pad k + 1 of the layout, clears the pad lit before it and
\* keeps the timer, so each of the 16 pads is lit once in order; the firing after the last
\* pad stops the timer, and the state it leaves has every pad off and no timer of the
\* script pending
C39_ShutdownAnimationEndsDark ==
    [][\A k \in 0..Len(NOTES) :
          SweepStep(k) =>
             IF k < Len(NOTES)
                THEN /\ padLED'[NOTES[k + 1]]
                     /\ k > 0 => ~padLED'[NOTES[k]]
                     /\ Cardinality(LightsSent(fx'.midi, NOTES[k + 1])) = 1
                     /\ \E t \in timers' : t.kind = "shutdownAnim" /\ t.a = k + 1
                     /\ fx'.stopped = <<>>
                ELSE /\ Len(fx'.stopped) = 1
                     /\ fx'.stopped[1] \notin {t.id : t \in timers'}
                     /\ \A p \in Pads : ~padLED'[p]
                     /\ timers' = {}]_vars

=============================================================================
